---- MODULE Spec2Model ----
(***************************************************************************)
(* Code-execution sandbox and runner protocol of the lesson player.        *)
(*                                                                         *)
(*   - the Runner facade over a Web Worker (lib/interpreter:               *)
(*     createWorkerRunner) and over the remote Paiza API                   *)
(*     (createPaizaRunner);                                                *)
(*   - the three worker contexts (Python/Pyodide, C, C#) and their         *)
(*     message handlers;                                                   *)
(*   - the CodeInterpreter component that owns one Runner at a time;       *)
(*   - the lesson page: CodeQuizElement's grading, the code handleRun      *)
(*     dispatches, and the Python error sanitizer;                         *)
(*   - the App component: routes, lesson loading, the Continue and Finish  *)
(*     gates, finishLesson and the progress it saves;                      *)
(*   - onAuthChange and the subscription it returns.                       *)
(*                                                                         *)
(* Time is counted in ticks of one poll interval (800 ms).                 *)
(***************************************************************************)
EXTENDS Integers, Sequences, FiniteSets, TLC

\* ---------------------------------------------------------------- bounds
\* run() calls and warmup() calls made in one behaviour.
MaxRuns == 2
MaxWarmups == 1
\* Output chunks (stdout/stderr) one execution of user code may produce.
MaxOut == 1
\* The run's timeout budget (opts.timeoutMs), in ticks.
TimeoutTicks == 1
\* Values the language prop of one CodeInterpreter takes in one behaviour.
MaxLangs == 2
\* warmup() calls made on the Runner of one worker context.
MaxCtxWarmups == 2

WorkerKinds == {"py", "c", "cs"}
RunnerKinds == WorkerKinds \cup {"paiza"}

VARIABLES
    runners,    \* Seq of Runner instances: [kind, worker]  (worker = 0: null)
    wk,         \* Seq of Web Workers ever created (index = identity)
    runs,       \* Seq of run() calls: the closure state of each RunHandle
    warmups,    \* Seq of warmup() calls: the state of each returned promise
    now,        \* wall clock, in ticks
    ui,         \* the CodeInterpreter component's state
    quiz,       \* the lesson page around it: CodeQuizElement and App
    san,        \* the last call of sanitizePythonError: argument and outcome
    py,         \* the code argument of each run() on the Python Runner
    app,        \* the App component: route, manifest, lesson, progress
    auth        \* onAuthChange: the subscription and its callback's calls

vars == <<runners, wk, runs, warmups, now, ui, quiz, san, py, app, auth>>

\* ------------------------------------------------------------- messages
\* A message posted by a worker, and a RunUpdate kept by the host.  rid is
\* the run whose execution produced it (0: not produced by a run), n the
\* ordinal of an output chunk within that execution, msg the kind of error
\* text.
Msg(type, rid, n, msg) == [type |-> type, rid |-> rid, n |-> n, msg |-> msg]
ReadyMsg == Msg("ready", 0, 0, "")
InitErrorMsg == Msg("init-error", 0, 0, "init")
DoneMsg(rid) == Msg("done", rid, 0, "")
ErrorMsg(rid, msg) == Msg("error", rid, 0, msg)
IsTerminal(u) == u.type \in {"error", "done"}

\* ------------------------------------------------------- worker contexts
\* A freshly created worker: module-level state of the worker script.
\*   load     : pyodideReady (Python): "null" | "loading" | "ok" | "failed"
\*   backend  : backend / runtime loaded (C, C#)
\*   flag     : isNetworkDisabled
\*   net      : fetch, XMLHttpRequest, WebSocket, EventSource throw
\*   tasks    : invocations of self.onmessage suspended at an await
\*   nLoad    : calls of loadPyodide made so far (history)
\*   nReady, nInitErr : `ready` / `init-error` messages posted so far (history)
\*   log      : the messages posted so far for runs, in order (history)
\*   disposed : the worker was terminated by dispose() (history)
\*   globals  : names bound in the interpreter's global namespace (Python)
NewWorker(owner, kind) ==
    [owner |-> owner, kind |-> kind, alive |-> TRUE, hung |-> FALSE,
     inbox |-> <<>>, outbox |-> <<>>, tasks |-> <<>>,
     load |-> "null", backend |-> FALSE, degraded |-> FALSE,
     readyPosted |-> FALSE, flag |-> FALSE, net |-> FALSE,
     nLoad |-> 0, nReady |-> 0, nInitErr |-> 0, log |-> <<>>,
     disposed |-> FALSE, globals |-> {}]

Post(k, m) ==
    [k EXCEPT !.outbox = Append(@, m),
              !.nReady = IF m.type = "ready" THEN @ + 1 ELSE @,
              !.nInitErr = IF m.type = "init-error" THEN @ + 1 ELSE @,
              !.log = IF m.rid # 0 THEN Append(@, m) ELSE @]

\* Worker.terminate(): the context stops, queued and in-flight messages are
\* discarded.
Terminated(k) ==
    [NewWorker(k.owner, k.kind) EXCEPT !.alive = FALSE,
                                       !.disposed = k.disposed]

PyDisableNetwork(k) ==
    IF k.flag THEN k ELSE [k EXCEPT !.net = TRUE, !.flag = TRUE]

\* cWorker.js: the function returns on its first statement.
CDisableNetwork(k) == k

CsDisableNetwork(k) ==
    IF k.flag THEN k ELSE [k EXCEPT !.net = TRUE, !.flag = TRUE]

DisableNetwork(k) ==
    CASE k.kind = "py" -> PyDisableNetwork(k)
      [] k.kind = "c"  -> CDisableNetwork(k)
      [] OTHER         -> CsDisableNetwork(k)

Task(kind, rid, pc) == [kind |-> kind, rid |-> rid, pc |-> pc, out |-> 0]

RemoveAt(s, i) == SubSeq(s, 1, i - 1) \o SubSeq(s, i + 1, Len(s))

\* Mutant of PyAfterEnsure: a failed load is swallowed by the run handler.
PyAfterEnsure_Silent(k, t) ==
    IF k.load = "ok"
    THEN LET d == PyDisableNetwork(k) IN
         IF t.kind = "warmup" THEN d
         ELSE [d EXCEPT !.tasks = Append(@, [t EXCEPT !.pc = "exec"])]
    ELSE IF t.kind = "warmup" THEN Post(k, InitErrorMsg) ELSE k

\* Python: the rest of self.onmessage after `await ensurePyodide()`.
PyAfterEnsure(k, t) ==
    IF k.load = "ok"
    THEN LET d == PyDisableNetwork(k) IN
         IF t.kind = "warmup" THEN d
         ELSE [d EXCEPT !.tasks = Append(@, [t EXCEPT !.pc = "exec"])]
    ELSE Post(k, IF t.kind = "warmup" THEN InitErrorMsg
                 ELSE ErrorMsg(t.rid, "init"))

RECURSIVE PyResumeAll(_, _)
PyResumeAll(k, ts) ==
    IF ts = <<>> THEN k
    ELSE PyResumeAll(PyAfterEnsure(k, Head(ts)), Tail(ts))

\* Mutant of PyOnMessage: a warmup starts the load whenever none is pending.
PyOnMessage_Reloads(k, m) ==
    LET t == Task(m.type, m.rid, "awaitLoad") IN
    CASE k.load = "null" \/ (m.type = "warmup" /\ k.load # "loading") ->
             [k EXCEPT !.load = "loading", !.nLoad = @ + 1,
                       !.tasks = Append(@, t)]
      [] k.load = "loading" -> [k EXCEPT !.tasks = Append(@, t)]
      [] OTHER              -> PyAfterEnsure(k, t)

\* Python: self.onmessage up to its first await; ensurePyodide starts the
\* load once and every caller awaits the same promise.
PyOnMessage(k, m) ==
    LET t == Task(m.type, m.rid, "awaitLoad") IN
    CASE k.load = "null"    -> [k EXCEPT !.load = "loading", !.nLoad = @ + 1,
                                         !.tasks = Append(@, t)]
      [] k.load = "loading" -> [k EXCEPT !.tasks = Append(@, t)]
      [] OTHER              -> PyAfterEnsure(k, t)

\* Python: the body of the pyodideReady promise settles; the handlers that
\* await it resume in the order they awaited.
PyLoaded(k, ok) ==
    LET k1 == IF ok THEN Post(PyDisableNetwork([k EXCEPT !.load = "ok"]), ReadyMsg)
              ELSE Post([k EXCEPT !.load = "failed"], InitErrorMsg)
    IN PyResumeAll([k1 EXCEPT !.tasks = <<>>], k.tasks)

\* Mutant of ToolAfterLoad: a warmup whose load attempt threw reports
\* init-error, and a run without toolchain is dropped.
ToolAfterLoad_FailsHard(k, t, threw) ==
    LET k1 == IF threw THEN [k EXCEPT !.degraded = TRUE] ELSE k
        d  == DisableNetwork(k1)
    IN IF t.kind = "warmup"
       THEN IF threw THEN Post(d, InitErrorMsg)
            ELSE IF d.readyPosted THEN d
            ELSE [Post(d, ReadyMsg) EXCEPT !.readyPosted = TRUE]
       ELSE IF ~d.backend \/ d.degraded
            THEN d
            ELSE [d EXCEPT !.tasks = Append(@, [t EXCEPT !.pc = "exec"])]

\* C, C#: the rest of self.onmessage after the load attempt; threw says
\* whether loadBackend / loadRuntime threw.
ToolAfterLoad(k, t, threw) ==
    LET k1 == IF threw THEN [k EXCEPT !.degraded = TRUE] ELSE k
        d  == DisableNetwork(k1)
    IN IF t.kind = "warmup"
       THEN IF d.readyPosted THEN d
            ELSE [Post(d, ReadyMsg) EXCEPT !.readyPosted = TRUE]
       ELSE IF ~d.backend \/ d.degraded
            THEN Post(d, ErrorMsg(t.rid, "unavailable"))
            ELSE [d EXCEPT !.tasks = Append(@, [t EXCEPT !.pc = "exec"])]

\* C, C#: one load attempt ends; ok says whether the adapter was found.
\* The attempt throws only if no backend is set once it ends.
ToolLoaded(k, t, ok) ==
    LET k1 == [k EXCEPT !.backend = @ \/ ok] IN
    ToolAfterLoad(k1, t, ~k1.backend)

\* C: self.onmessage up to its first await.  loadBackend awaits a dynamic
\* import, so other messages are handled while it is pending.
COnMessage(k, m) ==
    LET t == Task(m.type, m.rid, "awaitLoad") IN
    IF k.backend THEN ToolAfterLoad(k, t, FALSE)
    ELSE [k EXCEPT !.tasks = Append(@, t)]

\* C#: loadRuntime has no await inside (importScripts is synchronous), so
\* the handler runs to compileAndRun without interleaving.
CsOnMessage(k, m, ok) ==
    LET t == Task(m.type, m.rid, "awaitLoad") IN
    IF k.backend THEN ToolAfterLoad(k, t, FALSE)
    ELSE ToolLoaded(k, t, ok)

\* ---------------------------------------------------------- host: Runner
\* The state the Runner operations read and write, as one record, so that
\* the operations compose.
St == [runners |-> runners, wk |-> wk, runs |-> runs, warmups |-> warmups]

IsWorkerKind(kind) == kind \in WorkerKinds

\* Mutant of ensureWorker: the worker variable is shared by all Runners.
EnsureWorker_Shared(S, rn) ==
    IF S.runners[rn].worker # 0 THEN S
    ELSE IF \E o \in DOMAIN S.runners : S.runners[o].worker # 0
         THEN [S EXCEPT !.runners[rn].worker =
                  S.runners[CHOOSE o \in DOMAIN S.runners :
                                S.runners[o].worker # 0].worker]
    ELSE [S EXCEPT !.wk = Append(@, NewWorker(rn, S.runners[rn].kind)),
                   !.runners[rn].worker = Len(S.wk) + 1]

\* ensureWorker
EnsureWorker(S, rn) ==
    IF S.runners[rn].worker # 0 THEN S
    ELSE [S EXCEPT !.wk = Append(@, NewWorker(rn, S.runners[rn].kind)),
                   !.runners[rn].worker = Len(S.wk) + 1]

\* postMessage to a worker; a terminated worker ignores it.
Send(S, w, m) ==
    IF S.wk[w].alive THEN [S EXCEPT !.wk[w].inbox = Append(@, m)] ELSE S

Terminate(S, w) == [S EXCEPT !.wk[w] = Terminated(@)]

\* createWorkerRunner / createPaizaRunner
CreateRunnerF(S, kind) ==
    LET S1 == [S EXCEPT !.runners = Append(@, [kind |-> kind, worker |-> 0])]
    IN IF IsWorkerKind(kind) THEN EnsureWorker(S1, Len(S1.runners)) ELSE S1

\* warmup(): the worker runner listens for ready / init-error and posts
\* { type: 'warmup' }; the Paiza runner resolves at once.
WarmupF(S, rn) ==
    IF IsWorkerKind(S.runners[rn].kind)
    THEN LET S1 == EnsureWorker(S, rn)
             w  == S1.runners[rn].worker
             S2 == [S1 EXCEPT !.warmups = Append(@,
                       [runner |-> rn, w |-> w, state |-> "pending",
                        listening |-> TRUE])]
         IN Send(S2, w, [type |-> "warmup", rid |-> 0])
    ELSE [S EXCEPT !.warmups = Append(@,
             [runner |-> rn, w |-> 0, state |-> "resolved",
              listening |-> FALSE])]

\* The closure of one run() call.  For the Paiza runner: pc is the step,
\* resp the response of the step's request once it has arrived ("": the
\* request is in flight; "ok" / "http": its body is being read), issued the
\* time the step's request was started, bad whether some response so far was
\* not a well-formed 200 (history); cancelled whether cancel() was called
\* (history).
NewRun(rn, w, t, pc) ==
    [runner |-> rn, w |-> w, updates |-> <<>>, state |-> "pending",
     listening |-> (w # 0), start |-> t, pc |-> pc,
     deadline |-> t + TimeoutTicks, aborted |-> FALSE, reason |-> "",
     wake |-> 0, cancelled |-> FALSE, resp |-> "", issued |-> t,
     bad |-> FALSE]

WorkerRun(S, rn, t) ==
    LET S1 == EnsureWorker(S, rn)
        w  == S1.runners[rn].worker
        S2 == [S1 EXCEPT !.runs = Append(@, NewRun(rn, w, t, "worker"))]
    IN Send(S2, w, [type |-> "run", rid |-> Len(S2.runs)])

PaizaRun(S, rn, t) ==
    [S EXCEPT !.runs = Append(@, NewRun(rn, 0, t, "create"))]

\* run(code, opts)
RunF(S, rn, t) ==
    IF IsWorkerKind(S.runners[rn].kind) THEN WorkerRun(S, rn, t)
    ELSE PaizaRun(S, rn, t)

\* Mutant of WorkerCancel: the Runner keeps its reference to the worker.
WorkerCancel_KeepsRef(S, r) ==
    [Terminate(S, S.runs[r].w) EXCEPT !.runs[r].cancelled = TRUE]

\* RunHandle.cancel of the worker runner: terminates the worker the run
\* captured and clears the Runner's reference.
WorkerCancel(S, r) ==
    LET S1 == Terminate(S, S.runs[r].w) IN
    [S1 EXCEPT !.runners[S.runs[r].runner].worker = 0,
               !.runs[r].cancelled = TRUE]

\* RunHandle.cancel of the Paiza runner: controller.abort('cancelled')
PaizaCancel(S, r) ==
    IF S.runs[r].aborted THEN [S EXCEPT !.runs[r].cancelled = TRUE]
    ELSE [S EXCEPT !.runs[r].aborted = TRUE, !.runs[r].reason = "cancelled",
                   !.runs[r].cancelled = TRUE]

CancelF(S, r) ==
    IF S.runs[r].w # 0 THEN WorkerCancel(S, r) ELSE PaizaCancel(S, r)

\* Mutant of DisposeF: the Runner keeps its reference to the worker.
DisposeF_KeepsRef(S, rn) ==
    IF S.runners[rn].worker # 0 /\ S.wk[S.runners[rn].worker].alive
    THEN [Terminate(S, S.runners[rn].worker) EXCEPT
             !.wk[S.runners[rn].worker].disposed = TRUE]
    ELSE S

\* dispose()
DisposeF(S, rn) ==
    IF S.runners[rn].worker # 0
    THEN [Terminate(S, S.runners[rn].worker) EXCEPT
             !.runners[rn].worker = 0,
             !.wk[S.runners[rn].worker].disposed = TRUE]
    ELSE S

Commit(S) ==
    /\ runners' = S.runners
    /\ wk' = S.wk
    /\ runs' = S.runs
    /\ warmups' = S.warmups

\* ------------------------------------------------- host: message listeners
\* warmup()'s onMessage
OnWarmupMessage(wu, m) ==
    CASE m.type = "ready"      -> [wu EXCEPT !.state = "resolved", !.listening = FALSE]
      [] m.type = "init-error" -> [wu EXCEPT !.state = "rejected", !.listening = FALSE]
      [] OTHER                 -> wu

\* Mutant of ResolveAndCleanup: the message listener is left on the worker.
ResolveAndCleanup_KeepsListener(run) ==
    [run EXCEPT !.state = IF @ = "pending" THEN "resolved" ELSE @]

\* resolveAndCleanup
ResolveAndCleanup(run) ==
    [run EXCEPT !.state = IF @ = "pending" THEN "resolved" ELSE @,
                !.listening = FALSE]

\* Mutant of OnRunMessage: the first output chunk resolves the promise.
OnRunMessage_Eager(run, m) ==
    IF m.type \in {"stdout", "stderr", "error", "done"}
    THEN ResolveAndCleanup([run EXCEPT !.updates = Append(@, m)])
    ELSE IF m.type = "ready" THEN [run EXCEPT !.updates = Append(@, m)]
    ELSE run

\* Mutant of OnRunMessage: stderr chunks are not collected.
OnRunMessage_DropsStderr(run, m) ==
    CASE m.type = "stdout" ->
             [run EXCEPT !.updates = Append(@, m)]
      [] m.type \in {"error", "done"} ->
             ResolveAndCleanup([run EXCEPT !.updates = Append(@, m)])
      [] m.type = "ready" ->
             [run EXCEPT !.updates = Append(@, m)]
      [] OTHER -> run

\* run()'s onMessage
OnRunMessage(run, m) ==
    CASE m.type \in {"stdout", "stderr"} ->
             [run EXCEPT !.updates = Append(@, m)]
      [] m.type = "error" ->
             ResolveAndCleanup([run EXCEPT !.updates = Append(@, m)])
      [] m.type = "done" ->
             ResolveAndCleanup([run EXCEPT !.updates = Append(@, m)])
      [] m.type = "ready" ->
             [run EXCEPT !.updates = Append(@, m)]
      [] OTHER -> run

\* ------------------------------------------------------ the Paiza runner
PollTicks == 1
FetchPcs == {"create", "status", "details"}

\* One of the `updates.push(error); updates.push(done); return` exits.
PaizaFail(run, r, msg) ==
    [run EXCEPT !.updates = @ \o <<ErrorMsg(r, msg), DoneMsg(r)>>,
                !.state = "resolved", !.pc = "end", !.resp = ""]

\* Mutant of PaizaCatch: the error is rethrown.
PaizaCatch_Rethrows(run, r, isAbortError) ==
    [run EXCEPT !.state = "rejected", !.pc = "end", !.resp = ""]

\* The catch block: an AbortError is reported as aborted/timed out, anything
\* else by its message.
PaizaCatch(run, r, isAbortError) ==
    PaizaFail(run, r, IF isAbortError THEN "aborted" ELSE "unexpected")

IsTimedOut(run, t) == t >= run.deadline
TimeRemaining(run, t) == IF run.deadline - t > 0 THEN run.deadline - t ELSE 0
Min(a, b) == IF a < b THEN a ELSE b

\* The head of the poll loop and the step after it, for the status just
\* learnt.
PaizaPoll(run, r, completed, t) ==
    IF IsTimedOut(run, t) THEN PaizaFail(run, r, "timeout")
    ELSE IF completed
         THEN [run EXCEPT !.pc = "details", !.resp = "", !.issued = t]
    ELSE [run EXCEPT !.pc = "pollwait", !.resp = "",
                     !.wake = t + Min(PollTicks, TimeRemaining(run, t))]

\* The four output texts of the details response that are non-empty.
DetailsCases == {{}, {"ro"}, {"be", "ro"}, {"bo", "be", "ro", "re"}}

PaizaOutputs(r, d) ==
    (IF "bo" \in d THEN <<Msg("stdout", r, 1, "")>> ELSE <<>>) \o
    (IF "be" \in d THEN <<Msg("stderr", r, 2, "")>> ELSE <<>>) \o
    (IF "ro" \in d THEN <<Msg("stdout", r, 3, "")>> ELSE <<>>) \o
    (IF "re" \in d THEN <<Msg("stderr", r, 4, "")>> ELSE <<>>) \o
    (IF d = {} THEN <<Msg("stdout", r, 0, "")>> ELSE <<>>)

PaizaSuccess(run, r, d) ==
    [run EXCEPT !.updates = @ \o PaizaOutputs(r, d) \o <<DoneMsg(r)>>,
                !.state = "resolved", !.pc = "end", !.resp = ""]

\* The body of a step's response has been read (or the read failed, which
\* `.catch(() => ({}))` turns into an empty object).
\*   "http"  : response not ok         "bad"   : body without the fields
\*   "running" / "completed" : the status field of the body
PaizaResponse(run, r, outcome, d, t) ==
    CASE outcome = "http"  -> PaizaFail(run, r, "http")
      [] outcome = "throw" -> PaizaCatch(run, r, FALSE)
      [] run.pc = "create" ->
             IF outcome = "bad" THEN PaizaFail(run, r, "noid")
             ELSE PaizaPoll(run, r, outcome = "completed", t)
      [] run.pc = "status" ->
             PaizaPoll(run, r, outcome = "completed", t)
      [] OTHER -> PaizaSuccess(run, r, IF outcome = "bad" THEN {} ELSE d)

FetchOutcomes == {"ok", "http", "throw"}
BodyOutcomes == {"bad", "running", "completed"}

\* --------------------------------------------------------------- actions
\* Continuations of settled promises (setup() after `await runner.warmup()`,
\* handleRun after the run's promise) are microtasks: the host's event loop
\* takes its next task (a click, a prop change, a worker message, a timer, a
\* fetch result) only once none is pending.
MicrotasksPending ==
    \/ \E i \in DOMAIN ui.setups :
          ~ui.setups[i].done /\ warmups[ui.setups[i].warmup].state # "pending"
    \/ \E h \in DOMAIN ui.handlers :
          ~ui.handlers[h].done /\ runs[ui.handlers[h].run].state # "pending"

HostTurn == ~MicrotasksPending

NoUi == UNCHANGED <<ui, quiz, san, py, app, auth>>

\* Nothing of the App component or of the auth module is in use.
NoApp == [mounted |-> FALSE]
NoAuth == [subscribed |-> FALSE]
NoPage == py = <<>> /\ app = NoApp /\ auth = NoAuth


Warmup(rn) ==
    /\ HostTurn
    /\ Len(warmups) < MaxWarmups
    /\ Commit(WarmupF(St, rn))
    /\ UNCHANGED now /\ NoUi

Run(rn) ==
    /\ HostTurn
    /\ Len(runs) < MaxRuns
    /\ Commit(RunF(St, rn, now))
    /\ UNCHANGED now /\ NoUi

Cancel(r) ==
    /\ HostTurn
    /\ CancelF(St, r) # St
    /\ Commit(CancelF(St, r))
    /\ UNCHANGED now /\ NoUi

Dispose(rn) ==
    /\ HostTurn
    /\ DisposeF(St, rn) # St
    /\ Commit(DisposeF(St, rn))
    /\ UNCHANGED now /\ NoUi

Running(w) == wk[w].alive /\ ~wk[w].hung

\* The worker's event loop dispatches the next message to self.onmessage.
WorkerReceive(w, ok) ==
    /\ Running(w)
    /\ wk[w].inbox # <<>>
    /\ LET m == Head(wk[w].inbox)
           k == [wk[w] EXCEPT !.inbox = Tail(@)]
       IN wk' = [wk EXCEPT ![w] =
                    CASE k.kind = "py" -> PyOnMessage(k, m)
                      [] k.kind = "c"  -> COnMessage(k, m)
                      [] OTHER         -> CsOnMessage(k, m, ok)]
    /\ UNCHANGED <<runners, runs, warmups, now>> /\ NoUi

PyLoadSettle(w, ok) ==
    /\ Running(w)
    /\ wk[w].kind = "py"
    /\ wk[w].load = "loading"
    /\ wk' = [wk EXCEPT ![w] = PyLoaded(@, ok)]
    /\ UNCHANGED <<runners, runs, warmups, now>> /\ NoUi

CLoadSettle(w, i, ok) ==
    /\ Running(w)
    /\ wk[w].kind = "c"
    /\ wk[w].tasks[i].pc = "awaitLoad"
    /\ wk' = [wk EXCEPT ![w] =
                 ToolLoaded([@ EXCEPT !.tasks = RemoveAt(@, i)], wk[w].tasks[i], ok)]
    /\ UNCHANGED <<runners, runs, warmups, now>> /\ NoUi

\* Python: user code writes a line; the batched callback posts it at once.
PyExecOut(w, i, stream) ==
    /\ Running(w)
    /\ wk[w].kind = "py"
    /\ wk[w].tasks[i].pc = "exec"
    /\ wk[w].tasks[i].out < MaxOut
    /\ wk' = [wk EXCEPT ![w] =
                 Post([@ EXCEPT !.tasks[i].out = @ + 1],
                      Msg(stream, wk[w].tasks[i].rid, wk[w].tasks[i].out + 1, ""))]
    /\ UNCHANGED <<runners, runs, warmups, now>> /\ NoUi

\* Python: runPythonAsync settles.
PyExecEnd(w, i, ok) ==
    /\ Running(w)
    /\ wk[w].kind = "py"
    /\ wk[w].tasks[i].pc = "exec"
    /\ wk' = [wk EXCEPT ![w] =
                 Post([@ EXCEPT !.tasks = RemoveAt(@, i)],
                      IF ok THEN DoneMsg(wk[w].tasks[i].rid)
                      ELSE ErrorMsg(wk[w].tasks[i].rid, "exec"))]
    /\ UNCHANGED <<runners, runs, warmups, now>> /\ NoUi

\* Mutant of ToolResult: done is posted before the error text.
ToolResult_DoneFirst(k, rid, res) ==
    LET k1 == IF "stdout" \in res THEN Post(k, Msg("stdout", rid, 1, "")) ELSE k
        k2 == Post(k1, DoneMsg(rid))
    IN IF "stderr" \in res THEN Post(k2, Msg("stderr", rid, 2, "")) ELSE k2

\* C, C#: compileAndRun settles: it throws, or returns the two texts.
ToolResult(k, rid, res) ==
    LET k1 == IF "stdout" \in res THEN Post(k, Msg("stdout", rid, 1, "")) ELSE k
        k2 == IF "stderr" \in res THEN Post(k1, Msg("stderr", rid, 2, "")) ELSE k1
    IN Post(k2, DoneMsg(rid))

ToolExecEnd(w, i, threw, res) ==
    /\ Running(w)
    /\ wk[w].kind \in {"c", "cs"}
    /\ wk[w].tasks[i].pc = "exec"
    /\ LET k == [wk[w] EXCEPT !.tasks = RemoveAt(@, i)]
           rid == wk[w].tasks[i].rid
       IN wk' = [wk EXCEPT ![w] =
                    IF threw THEN Post(k, ErrorMsg(rid, "exec"))
                    ELSE ToolResult(k, rid, res)]
    /\ UNCHANGED <<runners, runs, warmups, now>> /\ NoUi

\* c-backend.js: sendCompileRequest rejects (the compile worker raised an
\* error, or posting to it threw); C_BACKEND.compileAndRun catches that and
\* returns { stdout: '', stderr: 'Backend error: ...', success: false }, which
\* the C worker posts as stderr followed by done.
CompileAndRunFailed(k, rid) ==
    Post(Post(k, Msg("stderr", rid, 2, "backend")), DoneMsg(rid))

CCompileFail(w, i) ==
    /\ Running(w)
    /\ wk[w].kind = "c"
    /\ wk[w].tasks[i].pc = "exec"
    /\ wk' = [wk EXCEPT ![w] =
                 CompileAndRunFailed([@ EXCEPT !.tasks = RemoveAt(@, i)],
                                     wk[w].tasks[i].rid)]
    /\ UNCHANGED <<runners, runs, warmups, now>> /\ NoUi

\* User code never returns (an endless loop): the worker thread is stuck.
ExecHang(w, i) ==
    /\ Running(w)
    /\ wk[w].tasks[i].pc = "exec"
    /\ wk' = [wk EXCEPT ![w].hung = TRUE]
    /\ UNCHANGED <<runners, runs, warmups, now>> /\ NoUi

\* Mutant of Deliver: the host terminates the worker that reports an error.
Deliver_ErrorKills(w) ==
    /\ HostTurn
    /\ wk[w].alive
    /\ wk[w].outbox # <<>>
    /\ LET m == Head(wk[w].outbox) IN
       /\ wk' = [wk EXCEPT ![w] = IF m.type = "error" THEN Terminated(@)
                                  ELSE [@ EXCEPT !.outbox = Tail(@)]]
       /\ warmups' = [i \in DOMAIN warmups |->
             IF warmups[i].listening /\ warmups[i].w = w
             THEN OnWarmupMessage(warmups[i], m) ELSE warmups[i]]
       /\ runs' = [r \in DOMAIN runs |->
             IF runs[r].listening /\ runs[r].w = w
             THEN OnRunMessage(runs[r], m) ELSE runs[r]]
    /\ UNCHANGED <<runners, now>> /\ NoUi

\* The host's event loop dispatches a worker message to every listener
\* registered on that Worker object.
Deliver(w) ==
    /\ HostTurn
    /\ wk[w].alive
    /\ wk[w].outbox # <<>>
    /\ LET m == Head(wk[w].outbox) IN
       /\ wk' = [wk EXCEPT ![w].outbox = Tail(@)]
       /\ warmups' = [i \in DOMAIN warmups |->
             IF warmups[i].listening /\ warmups[i].w = w
             THEN OnWarmupMessage(warmups[i], m) ELSE warmups[i]]
       /\ runs' = [r \in DOMAIN runs |->
             IF runs[r].listening /\ runs[r].w = w
             THEN OnRunMessage(runs[r], m) ELSE runs[r]]
    /\ UNCHANGED <<runners, now>> /\ NoUi

PaizaPending(r) == runs[r].w = 0 /\ runs[r].state = "pending"

\* The step's request is in flight / its response body is being read.
InFetch(r) == PaizaPending(r) /\ runs[r].pc \in FetchPcs /\ runs[r].resp = ""
InBody(r) == PaizaPending(r) /\ runs[r].pc \in FetchPcs /\ runs[r].resp # ""

\* A fetch of the Paiza run settles: it rejects, or the response arrives;
\* `finally` clears the abort timer and the body is read next.
PaizaFetchSettle(r, outcome) ==
    /\ HostTurn
    /\ InFetch(r)
    /\ ~runs[r].aborted
    /\ runs' = [runs EXCEPT ![r] =
                   IF outcome = "throw" THEN PaizaResponse(@, r, "throw", {}, now)
                   ELSE [@ EXCEPT !.resp = outcome,
                                  !.bad = @ \/ outcome = "http"]]
    /\ UNCHANGED <<runners, wk, warmups, now>> /\ NoUi

\* The read of a response body (text() of a failed response, json() of an ok
\* one) settles.  On an aborted signal the read fails.
PaizaBodySettle(r, body, d) ==
    /\ HostTurn
    /\ InBody(r)
    /\ runs[r].aborted => body = "bad"
    /\ LET run == [runs[r] EXCEPT !.bad = @ \/ body = "bad"] IN
       runs' = [runs EXCEPT ![r] =
                   PaizaResponse(run, r,
                       IF run.resp = "http" THEN "http" ELSE body, d, now)]
    /\ UNCHANGED <<runners, wk, warmups, now>> /\ NoUi

\* The abort timer armed around a fetch fires: controller.abort('timeout').
PaizaTimer(r) ==
    /\ HostTurn
    /\ InFetch(r)
    /\ ~runs[r].aborted
    /\ now >= runs[r].deadline
    /\ runs' = [runs EXCEPT ![r].aborted = TRUE, ![r].reason = "timeout"]
    /\ UNCHANGED <<runners, wk, warmups, now>> /\ NoUi

\* A fetch on an aborted signal rejects: with an AbortError DOMException, or
\* (engines that reject with signal.reason) with the reason string itself.
PaizaFetchAborted(r, isAbortError) ==
    /\ HostTurn
    /\ InFetch(r)
    /\ runs[r].aborted
    /\ runs' = [runs EXCEPT ![r] = PaizaCatch(@, r, isAbortError)]
    /\ UNCHANGED <<runners, wk, warmups, now>> /\ NoUi

\* The poll sleep ends.
PaizaWake(r) ==
    /\ HostTurn
    /\ PaizaPending(r)
    /\ runs[r].pc = "pollwait"
    /\ now >= runs[r].wake
    /\ runs' = [runs EXCEPT ![r] =
                   IF @.aborted THEN PaizaCatch(@, r, TRUE)
                   ELSE [@ EXCEPT !.pc = "status", !.issued = now]]
    /\ UNCHANGED <<runners, wk, warmups, now>> /\ NoUi

\* A timer of the run is due, or its aborted fetch is about to reject: these
\* happen before time advances.
Due(r) ==
    \/ InFetch(r) /\ (runs[r].aborted \/ now >= runs[r].deadline)
    \/ PaizaPending(r) /\ runs[r].pc = "pollwait" /\ now >= runs[r].wake

\* The clock is read by the Paiza runner alone (the worker runner starts no
\* timer): it is followed up to a pending run's deadline, and one tick past
\* it while the body of a response is still being read.
Tick ==
    /\ \E r \in DOMAIN runs :
          \/ PaizaPending(r) /\ now < runs[r].deadline
          \/ InBody(r) /\ now <= runs[r].deadline
    /\ \A r \in DOMAIN runs : ~Due(r)
    /\ now' = now + 1
    /\ UNCHANGED <<runners, wk, runs, warmups>> /\ NoUi

\* ------------------------------------------------------ the Runner alone
EmptySt == [runners |-> <<>>, wk |-> <<>>, runs |-> <<>>, warmups |-> <<>>]

\* The component before its first effect runs: useState / useRef initial
\* values.  variant is the build's lib/interpreter: C and C# either run in
\* workers or through the Paiza API.
Languages == {"python", "c", "csharp"}
Variants == {"worker", "paiza"}

UiInitial(variant) ==
    [mounted |-> FALSE, variant |-> variant, language |-> "",
     status |-> "idle", error |-> "", runnerRef |-> 0,
     setups |-> <<>>, handlers |-> <<>>]

UiInit == UiInitial("worker")

\* The component used on its own, without onRunComplete (the prop is
\* optional); no Python error has been sanitized yet.
NoQuiz == [present |-> FALSE]
NoCall == [called |-> FALSE]

Init ==
    /\ \E kind \in RunnerKinds :
         LET S == CreateRunnerF(EmptySt, kind) IN
         /\ runners = S.runners /\ wk = S.wk
         /\ runs = S.runs /\ warmups = S.warmups
    /\ now = 0
    /\ ui = UiInit
    /\ quiz = NoQuiz /\ san = NoCall /\ NoPage

Streams == {"stdout", "stderr"}
TaskIdx(w) == DOMAIN wk[w].tasks

Backend ==
    \/ \E w \in DOMAIN wk, ok \in BOOLEAN : WorkerReceive(w, ok)
    \/ \E w \in DOMAIN wk, ok \in BOOLEAN : PyLoadSettle(w, ok)
    \/ \E w \in DOMAIN wk : \E i \in TaskIdx(w), ok \in BOOLEAN : CLoadSettle(w, i, ok)
    \/ \E w \in DOMAIN wk : \E i \in TaskIdx(w), s \in Streams : PyExecOut(w, i, s)
    \/ \E w \in DOMAIN wk : \E i \in TaskIdx(w), ok \in BOOLEAN : PyExecEnd(w, i, ok)
    \/ \E w \in DOMAIN wk : \E i \in TaskIdx(w), threw \in BOOLEAN, res \in SUBSET Streams :
          ToolExecEnd(w, i, threw, res)
    \/ \E w \in DOMAIN wk : \E i \in TaskIdx(w) : CCompileFail(w, i)
    \/ \E w \in DOMAIN wk : Deliver(w)
    \/ \E r \in DOMAIN runs, o \in FetchOutcomes : PaizaFetchSettle(r, o)
    \/ \E r \in DOMAIN runs, b \in BodyOutcomes, d \in DetailsCases :
          PaizaBodySettle(r, b, d)
    \/ \E r \in DOMAIN runs, a \in BOOLEAN : PaizaFetchAborted(r, a)
    \/ \E r \in DOMAIN runs : PaizaTimer(r)
    \/ \E r \in DOMAIN runs : PaizaWake(r)

Hang == \E w \in DOMAIN wk : \E i \in TaskIdx(w) : ExecHang(w, i)

Api ==
    \/ \E rn \in DOMAIN runners : Warmup(rn)
    \/ \E rn \in DOMAIN runners : Run(rn)
    \/ \E r \in DOMAIN runs : Cancel(r)
    \/ \E rn \in DOMAIN runners : Dispose(rn)

Next == Api \/ Backend \/ Hang \/ Tick

Spec == Init /\ [][Next]_vars

TypeOK ==
    /\ now \in 0..(MaxRuns * (TimeoutTicks + 1))
    /\ \A rn \in DOMAIN runners : runners[rn].worker \in 0..Len(wk)

\* Liveness: the event loops of the host and of each worker run the tasks
\* that are ready, pending fetches and loads settle, and time passes.  User
\* code that never returns (Hang) and the caller's calls are not forced.
Fairness == WF_vars(Backend) /\ WF_vars(Tick)

SpecLive == Init /\ [][Next]_vars /\ Fairness

\* ------------------------------------------------------------ properties
RunIds == 1..MaxRuns
Last(s) == s[Len(s)]
Started(r) == r \in DOMAIN runs
Pending(r) == Started(r) /\ runs[r].state = "pending"
Resolved(r) == Started(r) /\ runs[r].state = "resolved"
OnWorker(r) == Started(r) /\ runs[r].w # 0
Terminals(us) == {i \in DOMAIN us : IsTerminal(us[i])}

\* C1: run()'s promise is never rejected, and once resolved its updates end
\* with an `error` or a `done` update (both runner kinds).
C1_ResolvesWithTerminal ==
    \A r \in DOMAIN runs :
        /\ runs[r].state \in {"pending", "resolved"}
        /\ runs[r].state = "resolved" =>
              /\ runs[r].updates # <<>>
              /\ IsTerminal(Last(runs[r].updates))

C1_Witness ==
    \E r \in DOMAIN runs :
        /\ runs[r].state = "resolved"
        /\ Len(runs[r].updates) >= 2
        /\ Last(runs[r].updates).type = "error"

\* C2: a worker run whose worker was terminated by cancel() or dispose()
\* while its promise was pending eventually resolves.
C2_TerminatedRunResolves ==
    \A r \in RunIds :
        [](Pending(r) /\ OnWorker(r) /\ ~wk[runs[r].w].alive => <>Resolved(r))

\* C3: a worker run whose worker posts no terminal message (user code never
\* returns) is resolved by the host with a timeout `error` as last update.
C3_TimeoutResolves ==
    \A r \in RunIds :
        [](Pending(r) /\ OnWorker(r) /\ wk[runs[r].w].hung =>
              <>(Resolved(r) /\ Last(runs[r].updates).msg = "timeout"))

\* C4: whenever user code is executing in a worker context, the network
\* primitives of that context have been replaced by functions that throw.
C4_NetworkBlockedWhileExecuting ==
    \A w \in DOMAIN wk : \A i \in DOMAIN wk[w].tasks :
        wk[w].tasks[i].pc = "exec" => wk[w].net

\* C5: every update in a run's result was produced by that run's own
\* execution (a terminal message resolves only the run it belongs to).
C5_RunsShareNothing ==
    \A r \in DOMAIN runs : \A i \in DOMAIN runs[r].updates :
        runs[r].updates[i].type # "ready" => runs[r].updates[i].rid = r

\* C7: a resolved result holds exactly one terminal update, and it is last.
C7_ExactlyOneTerminal ==
    \A r \in DOMAIN runs :
        runs[r].state = "resolved" =>
            Terminals(runs[r].updates) = {Len(runs[r].updates)}

\* C9: every live worker is the one its Runner references.
C9_OneLiveWorker ==
    \A w \in DOMAIN wk :
        wk[w].alive => runners[wk[w].owner].worker = w

\* The worker of run r no longer runs: it was terminated, or user code never
\* returns.
Stopped(r) == OnWorker(r) /\ (~wk[runs[r].w].alive \/ wk[runs[r].w].hung)

CancelledBefore(r) == \E q \in 1..(r - 1) : runs[q].cancelled

\* The step is a run() call on a worker-backed Runner.
IsRunCall ==
    /\ Len(runs') = Len(runs) + 1
    /\ runs'[Len(runs')].w # 0

\* C8: after cancel(), the next run() posts its run message to a fresh, live
\* worker (never to the terminated one), and the run resolves with a terminal
\* update unless that worker is stopped in turn.
C8_RunAfterCancel ==
    /\ [][IsRunCall =>
            LET r  == Len(runs')
                rn == runs'[r].runner
                w  == runs'[r].w
            IN /\ wk'[w].alive
               /\ wk'[w].inbox # <<>>
               /\ Last(wk'[w].inbox) = [type |-> "run", rid |-> r]
               /\ (CancelledBefore(r) /\ runners[rn].worker = 0) => w = Len(wk) + 1
         ]_vars
    /\ \A r \in RunIds :
          (Pending(r) /\ OnWorker(r) /\ CancelledBefore(r))
             ~> ((Resolved(r) /\ IsTerminal(Last(runs[r].updates))) \/ Stopped(r))

C8_Witness ==
    \E r \in DOMAIN runs :
        /\ Resolved(r) /\ OnWorker(r) /\ CancelledBefore(r)
        /\ runs[r].w > 1
        /\ wk[runs[r].w].alive

NoWarmupResolved(r) ==
    \A u \in DOMAIN warmups :
        warmups[u].runner = runs[r].runner => warmups[u].state # "resolved"

\* C10: a run issued before warmup has resolved (or with no warmup) gets a
\* terminal update, whether or not the toolchain loads, unless its worker is
\* stopped.
C10_RunBeforeWarmupTerminates ==
    \A r \in RunIds :
        (Pending(r) /\ NoWarmupResolved(r))
           ~> ((Resolved(r) /\ IsTerminal(Last(runs[r].updates))) \/ Stopped(r))

\* A run issued while warmup was pending ended although the load failed.
C10_Witness ==
    \E r \in DOMAIN runs :
        /\ Resolved(r)
        /\ NoWarmupResolved(r)
        /\ warmups # <<>>
        /\ Last(runs[r].updates).msg \in {"init", "unavailable"}

\* ------------------------------------------------ the CodeInterpreter UI
\* createPythonRunner / createCRunner / createCSharpRunner
KindOf(variant, language) ==
    CASE language = "python" -> "py"
      [] variant = "paiza"   -> "paiza"
      [] language = "c"      -> "c"
      [] OTHER               -> "cs"

\* The effect on [language]: the previous effect's cleanup, then setup() up
\* to `await runner.warmup()`.
EffectCleanup(U, S) ==
    IF ~U.mounted THEN [u |-> U, s |-> S]
    ELSE [u |-> [U EXCEPT !.setups[Len(U.setups)].cancelled = TRUE,
                          !.runnerRef = 0],
          s |-> IF U.runnerRef # 0 THEN DisposeF(S, U.runnerRef) ELSE S]

EffectSetup(U, S, language) ==
    LET S0 == IF U.runnerRef # 0 THEN DisposeF(S, U.runnerRef) ELSE S
        S1 == CreateRunnerF(S0, KindOf(U.variant, language))
        rn == Len(S1.runners)
        S2 == WarmupF(S1, rn)
    IN [u |-> [U EXCEPT !.mounted = TRUE, !.language = language,
                        !.runnerRef = rn,
                        !.setups = Append(@, [warmup |-> Len(S2.warmups),
                                              cancelled |-> FALSE,
                                              done |-> FALSE])],
        s |-> S2]

\* The component is mounted, or its language prop changes.
SetLanguage(language) ==
    /\ HostTurn
    /\ Len(runners) < MaxLangs
    /\ language # ui.language
    /\ LET c == EffectCleanup(ui, St)
           e == EffectSetup(c.u, c.s, language)
       IN /\ ui' = e.u
          /\ Commit(e.s)
    /\ UNCHANGED <<now, quiz, san, py, app, auth>>

\* setup() after `await runner.warmup()`
SetupContinue(i) ==
    /\ ~ui.setups[i].done
    /\ warmups[ui.setups[i].warmup].state # "pending"
    /\ LET ok == warmups[ui.setups[i].warmup].state = "resolved"
           U  == [ui EXCEPT !.setups[i].done = TRUE]
       IN ui' = IF ui.setups[i].cancelled THEN U
                ELSE IF ok THEN [U EXCEPT !.status = "ready"]
                ELSE [U EXCEPT !.status = "error", !.error = "init"]
    /\ UNCHANGED <<runners, wk, runs, warmups, now, quiz, san, py, app, auth>>

\* The Run button is enabled while status is 'ready'.
RunEnabled == ui.mounted /\ ui.status = "ready"

\* handleRun up to `await` of the run's promise; tooLong is the outcome of
\* the string-literal length validation.
HandleRun(tooLong) ==
    /\ HostTurn
    /\ RunEnabled
    /\ ui.runnerRef # 0
    /\ IF tooLong
       THEN /\ ui' = [ui EXCEPT !.status = "ready", !.error = "toolong"]
            /\ UNCHANGED <<runners, wk, runs, warmups>>
       ELSE /\ Len(runs) < MaxRuns
            /\ LET S == RunF(St, ui.runnerRef, now) IN
               /\ Commit(S)
               /\ ui' = [ui EXCEPT !.status = "running", !.error = "",
                            !.handlers = Append(@, [run |-> Len(S.runs),
                                                    done |-> FALSE])]
    /\ UNCHANGED <<now, quiz, san, py, app, auth>>

ErrorOf(us) ==
    IF \E i \in DOMAIN us : us[i].type = "error" THEN "run" ELSE ""

\* handleRun after the run's promise settled
HandleRunContinue(h) ==
    /\ ~ui.handlers[h].done
    /\ runs[ui.handlers[h].run].state # "pending"
    /\ LET run == runs[ui.handlers[h].run]
           U   == [ui EXCEPT !.handlers[h].done = TRUE]
       IN ui' = IF run.state = "resolved"
                THEN [U EXCEPT !.status = "ready",
                               !.error = IF ErrorOf(run.updates) = "" THEN @
                                         ELSE "run"]
                ELSE [U EXCEPT !.status = "error", !.error = "run"]
    /\ UNCHANGED <<runners, wk, runs, warmups, now, quiz, san, py, app, auth>>

InitUI ==
    /\ runners = <<>> /\ wk = <<>> /\ runs = <<>> /\ warmups = <<>>
    /\ now = 0
    /\ \E v \in Variants : ui = UiInitial(v)
    /\ quiz = NoQuiz /\ san = NoCall /\ NoPage

Microtasks ==
    \/ \E i \in DOMAIN ui.setups : SetupContinue(i)
    \/ \E h \in DOMAIN ui.handlers : HandleRunContinue(h)

UiEvents ==
    \/ \E l \in Languages : SetLanguage(l)
    \/ \E t \in BOOLEAN : HandleRun(t)

NextUI == Microtasks \/ UiEvents \/ Backend \/ Hang \/ Tick

SpecUI == InitUI /\ [][NextUI]_vars

InFlight(rn) == {r \in DOMAIN runs : runs[r].runner = rn /\ runs[r].state = "pending"}

\* C6: run() is never invoked on a Runner that still has an unsettled run:
\* Run is enabled only when the current Runner has no run in flight, and no
\* Runner ever has two.
C6_OneRunInFlight ==
    /\ \A rn \in DOMAIN runners : Cardinality(InFlight(rn)) <= 1
    /\ (RunEnabled /\ ui.runnerRef # 0) => InFlight(ui.runnerRef) = {}

\* ------------------------------------------- one worker context, re-warmed
\* The worker runner with any interleaving of warmup() and run() calls on
\* one Worker (no cancel, no dispose).
CtxWarmup(rn) ==
    /\ HostTurn
    /\ Len(warmups) < MaxCtxWarmups
    /\ Commit(WarmupF(St, rn))
    /\ UNCHANGED now /\ NoUi

WorkerLoop ==
    \/ \E w \in DOMAIN wk, ok \in BOOLEAN : WorkerReceive(w, ok)
    \/ \E w \in DOMAIN wk, ok \in BOOLEAN : PyLoadSettle(w, ok)
    \/ \E w \in DOMAIN wk : \E i \in TaskIdx(w), ok \in BOOLEAN : CLoadSettle(w, i, ok)
    \/ \E w \in DOMAIN wk : \E i \in TaskIdx(w), s \in Streams : PyExecOut(w, i, s)
    \/ \E w \in DOMAIN wk : \E i \in TaskIdx(w), ok \in BOOLEAN : PyExecEnd(w, i, ok)
    \/ \E w \in DOMAIN wk : \E i \in TaskIdx(w), threw \in BOOLEAN, res \in SUBSET Streams :
          ToolExecEnd(w, i, threw, res)
    \/ \E w \in DOMAIN wk : \E i \in TaskIdx(w) : CCompileFail(w, i)
    \/ \E w \in DOMAIN wk : Deliver(w)

InitCtx ==
    /\ \E kind \in WorkerKinds :
         LET S == CreateRunnerF(EmptySt, kind) IN
         /\ runners = S.runners /\ wk = S.wk
         /\ runs = S.runs /\ warmups = S.warmups
    /\ now = 0
    /\ ui = UiInit
    /\ quiz = NoQuiz /\ san = NoCall /\ NoPage

CtxApi ==
    \/ \E rn \in DOMAIN runners : CtxWarmup(rn)
    \/ \E rn \in DOMAIN runners : Run(rn)

NextCtx == CtxApi \/ WorkerLoop \/ Hang

SpecCtx == InitCtx /\ [][NextCtx]_vars

PyWorkers == {w \in DOMAIN wk : wk[w].kind = "py"}

\* C11: in a Python worker context, whatever warmup and run messages arrive,
\* loadPyodide is called at most once and `ready` is posted at most once, and
\* a context that has posted `ready` never posts `init-error`.
C11_LoadsOnce ==
    \A w \in PyWorkers :
        /\ wk[w].nLoad <= 1
        /\ wk[w].nReady <= 1
        /\ wk[w].nReady >= 1 => wk[w].nInitErr = 0

\* A second warmup was handled by a context that had already posted `ready`:
\* its listener was added after `ready` was delivered and it got no reply.
C11_Witness ==
    \E w \in PyWorkers :
        /\ wk[w].load = "ok" /\ wk[w].nReady = 1 /\ wk[w].nLoad = 1
        /\ wk[w].inbox = <<>> /\ wk[w].outbox = <<>> /\ wk[w].tasks = <<>>
        /\ Len(warmups) = 2
        /\ warmups[1].state = "resolved"
        /\ warmups[2].state = "pending"

\* ------------------------------------------------- the remote-API runner
PaizaRuns == {r \in DOMAIN runs : ~OnWorker(r)}
ErrorMsgs(us) == {us[i].msg : i \in {j \in DOMAIN us : us[j].type = "error"}}

\* C12: the deadline is fixed at run start, the abort budget of a request is
\* never negative, and a run whose request was cut off by the deadline
\* resolves with an `error` update that reports the timeout.
C12_DeadlineReported ==
    \A r \in PaizaRuns :
        /\ runs[r].deadline = runs[r].start + TimeoutTicks
        /\ TimeRemaining(runs[r], now) >= 0
        /\ (Resolved(r) /\ runs[r].reason = "timeout") =>
              ErrorMsgs(runs[r].updates) \cap {"timeout", "aborted"} # {}

\* C13: no request of a remote-API run is started once the deadline has
\* passed, and no step of it is still pending after the deadline.
C13_NoStepOutlivesDeadline ==
    \A r \in PaizaRuns :
        /\ InFetch(r) => runs[r].issued < runs[r].deadline
        /\ PaizaPending(r) => now <= runs[r].deadline

\* C14: a run that received a non-200 response or a malformed body at any
\* step is never rejected and resolves with an `error` update.
C14_BadResponseIsError ==
    \A r \in PaizaRuns :
        /\ runs[r].state # "rejected"
        /\ (Resolved(r) /\ runs[r].bad) => ErrorMsgs(runs[r].updates) # {}

\* C17: a remote-API run on which cancel() was called while its promise was
\* pending is never rejected and eventually resolves.
C17_CancelledPaizaResolves ==
    /\ [](\A r \in PaizaRuns : runs[r].state # "rejected")
    /\ \A r \in RunIds :
          (Started(r) /\ PaizaPending(r) /\ runs[r].cancelled) ~> Resolved(r)

\* A cancelled remote-API run resolved, reporting the abort.
C17_Witness ==
    \E r \in PaizaRuns :
        /\ Resolved(r) /\ runs[r].cancelled /\ runs[r].reason = "cancelled"
        /\ "aborted" \in ErrorMsgs(runs[r].updates)

\* -------------------------------------------------------- the C toolchain
\* C15: a run during which the C toolchain's underlying compile call failed
\* ends with an `error` update and holds no `done`.
C15_CompileFailureIsError ==
    \A r \in DOMAIN runs :
        (Resolved(r) /\ \E i \in DOMAIN runs[r].updates :
                            runs[r].updates[i].msg = "backend") =>
            /\ Last(runs[r].updates).type = "error"
            /\ \A i \in DOMAIN runs[r].updates : runs[r].updates[i].type # "done"

\* ------------------------------------------------ C / C# without adapter
\* The messages worker w posts in the step.
NewPosts(w) ==
    SubSeq(wk'[w].outbox, Len(wk[w].outbox) + 1, Len(wk'[w].outbox))

\* What a handler of message t posts when the adapter's entry point is
\* absent: `ready` for the first warmup, one unavailability error for a run,
\* and the run is not executed.
AbsentReply(w, t) ==
    /\ wk'[w].nInitErr = 0
    /\ IF t.kind = "warmup"
       THEN NewPosts(w) = IF wk[w].nReady = 0 THEN <<ReadyMsg>> ELSE <<>>
       ELSE /\ NewPosts(w) = <<ErrorMsg(t.rid, "unavailable")>>
            /\ \A j \in DOMAIN wk'[w].tasks : wk'[w].tasks[j].rid # t.rid

\* C16: in the C and C# workers, while the adapter's compileAndRun entry
\* point is absent, the first warmup posts `ready` (no `init-error`) and
\* every run posts exactly one "toolchain not available" `error`, with no
\* stdout, stderr or `done`.
C16_AbsentAdapterDegrades ==
    [][\A w \in DOMAIN wk :
          /\ \A i \in DOMAIN wk[w].tasks :
                (CLoadSettle(w, i, FALSE) /\ ~wk[w].backend)
                   => AbsentReply(w, wk[w].tasks[i])
          /\ (WorkerReceive(w, FALSE) /\ wk[w].kind = "cs" /\ ~wk[w].backend)
                   => AbsentReply(w, Task(Head(wk[w].inbox).type,
                                          Head(wk[w].inbox).rid, "awaitLoad"))
      ]_vars

\* A context without adapter answered its warmup with `ready`, and a later
\* run resolved with the unavailability error alone.
C16_Witness ==
    \E r \in DOMAIN runs :
        /\ OnWorker(r) /\ Resolved(r)
        /\ wk[runs[r].w].kind \in {"c", "cs"}
        /\ ~wk[runs[r].w].backend /\ wk[runs[r].w].degraded
        /\ wk[runs[r].w].nReady = 1
        /\ \E u \in DOMAIN warmups : warmups[u].state = "resolved"
        /\ runs[r].updates = <<ErrorMsg(r, "unavailable")>>

\* ------------------------------------------------------ order of updates
RECURSIVE UpToTerminal(_)
UpToTerminal(s) ==
    IF s = <<>> THEN <<>>
    ELSE IF IsTerminal(Head(s)) THEN <<Head(s)>>
    ELSE <<Head(s)>> \o UpToTerminal(Tail(s))

\* The messages worker w posted for run r, up to the first terminal one.
PostedFor(w, r) ==
    LET Mine(m) == m.rid = r IN UpToTerminal(SelectSeq(wk[w].log, Mine))

NotReady(u) == u.type # "ready"

\* Run r is the only run made on its Runner, and it resolved on a worker
\* that still exists.
SingleResolved(r) ==
    /\ OnWorker(r) /\ Resolved(r)
    /\ wk[runs[r].w].alive
    /\ \A q \in DOMAIN runs : runs[q].runner = runs[r].runner => q = r

\* C18 as stated: the result of a single run is exactly the stdout, stderr
\* and terminal messages the worker posted for it, in the order posted.
C18_UpdatesArePosted ==
    \A r \in DOMAIN runs :
        SingleResolved(r) => runs[r].updates = PostedFor(runs[r].w, r)

\* C18 (amended): the result of a single run, its `ready` updates left
\* aside, is exactly the stdout, stderr and terminal messages the worker
\* posted for it up to the first terminal one, in the order posted.
C18_UpdatesArePostedButReady ==
    \A r \in DOMAIN runs :
        SingleResolved(r) =>
            SelectSeq(runs[r].updates, NotReady) = PostedFor(runs[r].w, r)

\* A single run resolved with an output chunk, a `ready` and its terminal.
C18_Witness ==
    \E r \in DOMAIN runs :
        /\ SingleResolved(r)
        /\ Len(runs[r].updates) >= 3
        /\ \E i \in DOMAIN runs[r].updates : runs[r].updates[i].type = "ready"
        /\ \E i \in DOMAIN runs[r].updates : runs[r].updates[i].type = "stderr"

\* C19: once a run's promise has resolved, no later step (a later message of
\* the worker, a later run on the same worker) changes its updates.
C19_ResolvedIsFrozen ==
    [][\A r \in DOMAIN runs :
          Resolved(r) => runs'[r].updates = runs[r].updates]_vars

\* After run r1 resolved, a later run on the same worker received a message
\* of its own, which r1's updates do not hold.
C19_Witness ==
    \E r1, r2 \in DOMAIN runs :
        /\ r1 < r2 /\ OnWorker(r1) /\ runs[r1].w = runs[r2].w
        /\ Resolved(r1)
        /\ \E i \in DOMAIN runs[r2].updates : runs[r2].updates[i].rid = r2
        /\ \A i \in DOMAIN runs[r1].updates : runs[r1].updates[i].rid # r2

\* --------------------------------------------------- two Runners at once
\* Two worker-backed Runners (two lesson widgets on screen), a C one and a
\* C# one, and the calls a caller can make on either.
ToolLoop ==
    \/ \E w \in DOMAIN wk, ok \in BOOLEAN : WorkerReceive(w, ok)
    \/ \E w \in DOMAIN wk : \E i \in TaskIdx(w), ok \in BOOLEAN : CLoadSettle(w, i, ok)
    \/ \E w \in DOMAIN wk : \E i \in TaskIdx(w), threw \in BOOLEAN, res \in SUBSET Streams :
          ToolExecEnd(w, i, threw, res)
    \/ \E w \in DOMAIN wk : \E i \in TaskIdx(w) : CCompileFail(w, i)
    \/ \E w \in DOMAIN wk : Deliver(w)

InitTwo ==
    /\ \E k1 \in {"c"} :
         LET S == CreateRunnerF(CreateRunnerF(EmptySt, k1), "cs") IN
         /\ runners = S.runners /\ wk = S.wk
         /\ runs = S.runs /\ warmups = S.warmups
    /\ now = 0
    /\ ui = UiInit
    /\ quiz = NoQuiz /\ san = NoCall /\ NoPage

\* The caller's calls; each Runner is asked to run once.
TwoApi ==
    \/ \E rn \in DOMAIN runners : Warmup(rn)
    \/ \E rn \in DOMAIN runners :
          (\A r \in DOMAIN runs : runs[r].runner # rn) /\ Run(rn)
    \/ \E r \in DOMAIN runs : Cancel(r)
    \/ \E rn \in DOMAIN runners : Dispose(rn)

NextTwo == TwoApi \/ ToolLoop

SpecTwo == InitTwo /\ [][NextTwo]_vars

\* The step is a call of warmup(), run(), dispose() on Runner rn or of
\* cancel() on one of its handles.
CallOn(rn) ==
    \/ Warmup(rn) \/ Run(rn) \/ Dispose(rn)
    \/ \E r \in DOMAIN runs : runs[r].runner = rn /\ Cancel(r)

\* The step leaves Runner o, its workers, its runs and its warmups alone.
Untouched(o) ==
    /\ runners'[o] = runners[o]
    /\ \A w \in DOMAIN wk : wk[w].owner = o => wk'[w] = wk[w]
    /\ \A r \in DOMAIN runs : runs[r].runner = o => runs'[r] = runs[r]
    /\ \A u \in DOMAIN warmups : warmups[u].runner = o => warmups'[u] = warmups[u]

\* Every worker a Runner, a run or a warmup refers to was created by that
\* Runner, and every update of a run was produced by a run of its Runner.
OwnWorkers ==
    /\ \A rn \in DOMAIN runners :
          runners[rn].worker # 0 => wk[runners[rn].worker].owner = rn
    /\ \A r \in DOMAIN runs : OnWorker(r) =>
          /\ wk[runs[r].w].owner = runs[r].runner
          /\ \A i \in DOMAIN runs[r].updates :
                runs[r].updates[i].rid # 0 =>
                    runs[runs[r].updates[i].rid].runner = runs[r].runner
    /\ \A u \in DOMAIN warmups :
          warmups[u].w # 0 => wk[warmups[u].w].owner = warmups[u].runner

\* C20: with two Runners alive, a call on one never terminates or replaces
\* the other's worker, never delivers a message to the other's run and never
\* changes the other's results.
C20_RunnersIsolated ==
    /\ []OwnWorkers
    /\ [][\A rn, o \in DOMAIN runners :
            (CallOn(rn) /\ o # rn) => Untouched(o)]_vars

\* One Runner's worker was terminated by cancel() while the other Runner's
\* run went on to resolve on its own live worker.
C20_Witness ==
    \E r1, r2 \in DOMAIN runs :
        /\ runs[r1].runner # runs[r2].runner
        /\ runs[r1].cancelled /\ ~wk[runs[r1].w].alive
        /\ Resolved(r2) /\ wk[runs[r2].w].alive
        /\ Last(runs[r2].updates) = DoneMsg(r2)

\* ------------------------------------------------- after a user-code error
\* Run r resolved with the error its own user code raised.
UserErrorEnded(r) ==
    /\ OnWorker(r) /\ Resolved(r)
    /\ Last(runs[r].updates) = ErrorMsg(r, "exec")

\* cancel() was called on a handle of Runner rn.
CancelledOn(rn) ==
    \E q \in DOMAIN runs : runs[q].runner = rn /\ runs[q].cancelled

\* A later run was started on the worker of run r.
Overtaken(r) ==
    \E q \in DOMAIN runs : q > r /\ Started(r) /\ runs[q].w = runs[r].w

\* C22: after a worker run ends with an `error` raised by user code, the
\* Runner keeps the same live worker (until cancel() is called), and the run
\* issued next on it resolves with a terminal update of its own, unless its
\* worker is stopped or yet another run is started on it meanwhile.
C22_ErrorKeepsWorker ==
    /\ [](\A r \in DOMAIN runs :
            (UserErrorEnded(r) /\ ~CancelledOn(runs[r].runner)) =>
                /\ wk[runs[r].w].alive
                /\ runners[runs[r].runner].worker = runs[r].w)
    /\ \A q, r \in RunIds :
          (r = q + 1 /\ UserErrorEnded(q) /\ Pending(r) /\ runs[r].w = runs[q].w)
             ~> \/ /\ Resolved(r) /\ IsTerminal(Last(runs[r].updates))
                   /\ Last(runs[r].updates).rid = r
                \/ Stopped(r)
                \/ Overtaken(r)

\* After run q ended with a user-code error, run r resolved on the same live
\* worker with its own `done`.
C22_Witness ==
    \E q, r \in DOMAIN runs :
        /\ r = q + 1 /\ UserErrorEnded(q) /\ runs[r].w = runs[q].w
        /\ Resolved(r) /\ wk[runs[r].w].alive
        /\ runs[r].updates = <<DoneMsg(r)>>

\* -------------------------------------------------------------- dispose
\* dispose() was called on Runner rn and terminated worker w.
DisposedAt(rn, w) == wk[w].owner = rn /\ wk[w].disposed

\* Runner rn has been disposed and holds no worker.
DisposedIdle(rn) ==
    /\ runners[rn].worker = 0
    /\ \E w \in DOMAIN wk : DisposedAt(rn, w)

\* C21 (amended): dispose() terminates the Runner's worker and clears its
\* reference, so a disposed worker is dead and never referenced again; the
\* Runner is not terminal: the next warmup() or run() on it creates a new
\* live worker and posts its message there.
C21_DisposedIsReplaced ==
    /\ [](\A w \in DOMAIN wk :
            wk[w].disposed =>
                /\ ~wk[w].alive /\ wk[w].inbox = <<>> /\ wk[w].outbox = <<>>
                /\ runners[wk[w].owner].worker # w)
    /\ [][\A rn \in DOMAIN runners :
            ((Warmup(rn) \/ Run(rn)) /\ DisposedIdle(rn)) =>
                /\ Len(wk') = Len(wk) + 1
                /\ runners'[rn].worker = Len(wk')
                /\ wk'[Len(wk')].alive
                /\ Len(wk'[Len(wk')].inbox) = 1
         ]_vars

\* A run made after dispose() resolved on a new worker of the same Runner.
C21_Witness ==
    \E r \in DOMAIN runs : \E w \in DOMAIN wk :
        /\ DisposedAt(runs[r].runner, w)
        /\ OnWorker(r) /\ runs[r].w > w
        /\ Resolved(r) /\ wk[runs[r].w].alive
        /\ runners[runs[r].runner].worker = runs[r].w

\* C21 as stated: once dispose() has been called on a Runner, no later
\* warmup() or run() creates a new worker for it, and it references no worker
\* again.
C21_DisposedIsTerminal ==
    \A rn \in DOMAIN runners : \A w \in DOMAIN wk :
        DisposedAt(rn, w) =>
            /\ runners[rn].worker = 0
            /\ \A v \in DOMAIN wk : wk[v].owner = rn => v <= w

\* ------------------------------------------- fair scheduling, by concern
\* Starting a Runner: warmup() and run() calls in any order on a Runner of
\* any kind, with the event loops scheduled fairly.
NextStart == CtxApi \/ Backend \/ Hang \/ Tick

SpecStart == Init /\ [][NextStart]_vars /\ Fairness

\* Cancelling: warmup(), run() and RunHandle.cancel() on a worker-backed
\* Runner, with the event loops scheduled fairly.
CancelApi ==
    \/ \E rn \in DOMAIN runners : Warmup(rn)
    \/ \E rn \in DOMAIN runners : Run(rn)
    \/ \E r \in DOMAIN runs : Cancel(r)

NextCancel == CancelApi \/ WorkerLoop \/ Hang

SpecCancel == InitCtx /\ [][NextCancel]_vars /\ WF_vars(WorkerLoop)

\* The remote-API runner alone.
PaizaLoop ==
    \/ \E r \in DOMAIN runs, o \in FetchOutcomes : PaizaFetchSettle(r, o)
    \/ \E r \in DOMAIN runs, b \in BodyOutcomes, d \in DetailsCases :
          PaizaBodySettle(r, b, d)
    \/ \E r \in DOMAIN runs, a \in BOOLEAN : PaizaFetchAborted(r, a)
    \/ \E r \in DOMAIN runs : PaizaTimer(r)
    \/ \E r \in DOMAIN runs : PaizaWake(r)

InitPaiza ==
    /\ LET S == CreateRunnerF(EmptySt, "paiza") IN
         /\ runners = S.runners /\ wk = S.wk
         /\ runs = S.runs /\ warmups = S.warmups
    /\ now = 0
    /\ ui = UiInit
    /\ quiz = NoQuiz /\ san = NoCall /\ NoPage

NextPaiza == CancelApi \/ PaizaLoop \/ Tick

SpecPaiza ==
    InitPaiza /\ [][NextPaiza]_vars /\ WF_vars(PaizaLoop) /\ WF_vars(Tick)

\* ------------------------------------------------------- the lesson page
\* A code quiz of a lesson: the CodeQuizElement around one CodeInterpreter
\* and App's Continue / Finish gate.  The Runner is the environment here: a
\* started run settles with some output text and some error message.
\*
\* Texts are sequences of characters; SP, LF, CR stand for " ", "\n", "\r".
Chars == {"x", "SP", "LF", "CR"}
MaxTextLen == 3
Texts == UNION {[1..n -> Chars] : n \in 0..MaxTextLen}

\* A value read from the lesson's JSON (desiredOutput) or passed as a prop
\* (prefixCode, suffixCode): absent, a string, or an object such as
\* { "type": "exact", "value": "7 3", "skippable": true }.
Absent == [k |-> "null", s |-> <<>>, type |-> "", skippable |-> FALSE]
Str(s) == [k |-> "str", s |-> s, type |-> "", skippable |-> FALSE]
Rule(type, s, sk) == [k |-> "obj", s |-> s, type |-> type, skippable |-> sk]

\* JavaScript truthiness of such a value.
Truthy(v) == v.k = "obj" \/ (v.k = "str" /\ v.s # <<>>)

\* s.replace(/\r\n/g, '\n')
RECURSIVE ReplaceCrLf(_)
ReplaceCrLf(s) ==
    IF s = <<>> THEN <<>>
    ELSE IF Len(s) >= 2 /\ s[1] = "CR" /\ s[2] = "LF"
         THEN <<"LF">> \o ReplaceCrLf(SubSeq(s, 3, Len(s)))
    ELSE <<s[1]>> \o ReplaceCrLf(Tail(s))

\* s.replace(/\r/g, '\n')
ReplaceCr(s) == [i \in DOMAIN s |-> IF s[i] = "CR" THEN "LF" ELSE s[i]]

\* s.trimEnd(): white space and line terminators are removed from the end.
WhiteSpace == {"SP", "LF", "CR"}
RECURSIVE TrimEnd(_)
TrimEnd(s) ==
    IF s # <<>> /\ s[Len(s)] \in WhiteSpace
    THEN TrimEnd(SubSeq(s, 1, Len(s) - 1))
    ELSE s

\* norm, of onRunComplete
Norm(s) == TrimEnd(ReplaceCr(ReplaceCrLf(s)))

\* The state of the quiz: props (desired, isLast, prefix, suffix), React
\* state (attempted, isCorrect; solved: codeSolved.has(idx); status), and
\*   crashed  : rendering threw and the page was unmounted
\*   passed   : Continue / Finish was clicked on this quiz
\*   sent     : the code of the run in flight, as given to runner.run
\*   code, runCode, output, error : the editor text of the last handleRun and
\*              the arguments of the last onRunComplete (history)
\*   started, completed : handleRun / onRunComplete calls so far (history)
\*   compared : norm(output) === norm(desired) was evaluated (history)
NewQuiz(desired, isLast, prefix, suffix) ==
    [present |-> TRUE, desired |-> desired, isLast |-> isLast,
     prefix |-> prefix, suffix |-> suffix,
     attempted |-> FALSE, isCorrect |-> FALSE, solved |-> FALSE,
     status |-> "ready", crashed |-> FALSE, passed |-> FALSE,
     sent |-> <<>>, code |-> <<>>, runCode |-> <<>>,
     output |-> <<>>, error |-> "",
     started |-> 0, completed |-> 0, compared |-> FALSE]

\* rightPanel: what the quiz shows next to the console.  An object rendered
\* as a child of <code> makes React throw.
RightPanel(Q) ==
    IF Q.attempted /\ Q.desired.k # "null"
    THEN IF Q.isCorrect THEN "Correct"
         ELSE IF Q.desired.k = "obj" THEN "throws" ELSE "Incorrect"
    ELSE "none"

\* Mutant of OnRunComplete: the output is compared although no
\* desiredOutput is given (an absent value is read as '').
OnRunComplete_AlwaysCompares(Q, output, error, runCode) ==
    LET Q1 == [Q EXCEPT !.attempted = TRUE, !.output = output,
                        !.error = error, !.runCode = runCode,
                        !.completed = @ + 1]
        ok == error = "" /\ Norm(output) = Norm(Q.desired.s)
        Q2 == IF Q.desired.k = "obj" THEN Q1
              ELSE [Q1 EXCEPT !.compared = TRUE, !.isCorrect = ok,
                              !.solved = @ \/ ok]
    IN [Q2 EXCEPT !.crashed = @ \/ RightPanel(Q2) = "throws"]

\* onRunComplete of CodeQuizElement, with onSolved of App; a throw of norm
\* (desired is not a string) is swallowed by the caller's try / catch.
OnRunComplete(Q, output, error, runCode) ==
    LET Q1 == [Q EXCEPT !.attempted = TRUE, !.output = output,
                        !.error = error, !.runCode = runCode,
                        !.completed = @ + 1]
        ok == error = "" /\ Norm(output) = Norm(Q.desired.s)
        Q2 == CASE Q.desired.k = "null" -> Q1
                [] Q.desired.k = "obj"  -> Q1
                [] OTHER -> [Q1 EXCEPT !.compared = TRUE, !.isCorrect = ok,
                                       !.solved = @ \/ ok]
    IN [Q2 EXCEPT !.crashed = @ \/ RightPanel(Q2) = "throws"]

\* App: whether Continue (Finish, for the last element) is rendered.
ContinueAvailable(Q) ==
    /\ ~Q.crashed /\ ~Q.passed
    /\ IF Truthy(Q.desired) THEN Q.solved ELSE TRUE

\* ---------------------------------------------------- handleRun: the code
StartsWith(s, p) == Len(p) <= Len(s) /\ SubSeq(s, 1, Len(p)) = p
EndsWith(s, p) == Len(p) <= Len(s) /\ SubSeq(s, Len(s) - Len(p) + 1, Len(s)) = p

\* runPrefix / runSuffix: the prop if it is a string, else ''.
RunAffix(v) == IF v.k = "str" THEN v.s ELSE <<>>

\* Mutant of MiddleForRun: the editor text is taken as it is.
MiddleForRun_Unstripped(code, runPrefix, runSuffix) == code

\* middleForRun: the editor text without the enforced prefix and suffix.
MiddleForRun(code, runPrefix, runSuffix) ==
    LET m1 == IF runPrefix # <<>> /\ StartsWith(code, runPrefix)
              THEN SubSeq(code, Len(runPrefix) + 1, Len(code)) ELSE code
    IN IF runSuffix # <<>> /\ EndsWith(m1, runSuffix)
       THEN SubSeq(m1, 1, Len(m1) - Len(runSuffix)) ELSE m1

\* runCode
RunCode(Q, code) ==
    RunAffix(Q.prefix) \o
    MiddleForRun(code, RunAffix(Q.prefix), RunAffix(Q.suffix)) \o
    RunAffix(Q.suffix)

\* handleRun up to `await` of the run's promise, for the editor text code;
\* tooLong is the outcome of the string-literal length validation.
QuizHandleRun(code, tooLong) ==
    /\ quiz.present /\ ~quiz.crashed
    /\ quiz.status = "ready"
    /\ quiz.started < MaxRuns
    /\ LET Q == [quiz EXCEPT !.code = code, !.started = @ + 1] IN
       quiz' = IF tooLong
               THEN OnRunComplete(Q, <<>>, "toolong", RunCode(Q, code))
               ELSE [Q EXCEPT !.status = "running", !.sent = RunCode(Q, code)]
    /\ UNCHANGED <<runners, wk, runs, warmups, now, ui, san, py, app, auth>>

\* handleRun after the run's promise resolved: output is the concatenation
\* of the stdout / stderr updates, error the message of the last `error`
\* update ("": none).
QuizRunSettled(output, error) ==
    /\ quiz.present /\ ~quiz.crashed
    /\ quiz.status = "running"
    /\ quiz' = OnRunComplete([quiz EXCEPT !.status = "ready"],
                             output, error, quiz.sent)
    /\ UNCHANGED <<runners, wk, runs, warmups, now, ui, san, py, app, auth>>

\* A click on Continue (setVisibleCount) or Finish (finishLesson).
QuizContinue ==
    /\ quiz.present
    /\ ContinueAvailable(quiz)
    /\ quiz' = [quiz EXCEPT !.passed = TRUE]
    /\ UNCHANGED <<runners, wk, runs, warmups, now, ui, san, py, app, auth>>

ErrorTexts == {"", "error"}
RuleTypes == {"exact", "error", "none"}

\* The desiredOutput values of a lesson: none, a string, a rule object.
Desireds ==
    {Absent} \cup {Str(t) : t \in Texts} \cup
    {Rule(ty, <<"x">>, sk) : ty \in RuleTypes, sk \in BOOLEAN}

NoRunner ==
    /\ runners = <<>> /\ wk = <<>> /\ runs = <<>> /\ warmups = <<>>
    /\ now = 0 /\ ui = UiInit /\ san = NoCall /\ NoPage

\* Grading: one quiz, any desiredOutput, any output and error of its runs.
InitGrade ==
    /\ NoRunner
    /\ \E d \in Desireds, last \in BOOLEAN :
          quiz = NewQuiz(d, last, Absent, Absent)

NextGrade ==
    \/ \E tooLong \in BOOLEAN : QuizHandleRun(<<"x">>, tooLong)
    \/ \E out \in Texts, err \in ErrorTexts : QuizRunSettled(out, err)
    \/ QuizContinue

SpecGrade == InitGrade /\ [][NextGrade]_vars

\* The dispatched code: one quiz, any prefix and suffix, any editor text.
MaxAffixLen == 1
CodeTexts == {u \in Texts : \A i \in DOMAIN u : u[i] \in {"x", "SP"}}
Affixes ==
    {Absent, Rule("exact", <<"x">>, FALSE)} \cup
    {Str(t) : t \in {u \in CodeTexts : Len(u) <= MaxAffixLen}}

InitCode ==
    /\ NoRunner
    /\ \E pre \in Affixes, suf \in Affixes :
          quiz = NewQuiz(Absent, FALSE, pre, suf)

NextCode ==
    \/ \E code \in CodeTexts, tooLong \in BOOLEAN : QuizHandleRun(code, tooLong)
    \/ QuizRunSettled(<<"x">>, "")
    \/ QuizContinue

SpecCode == InitCode /\ [][NextCode]_vars

\* -------------------------------------------------------------- grading
\* Line endings converted to LF.
RECURSIVE LfOnly(_)
LfOnly(s) ==
    IF s = <<>> THEN <<>>
    ELSE IF s[1] = "CR"
         THEN <<"LF">> \o LfOnly(IF Len(s) >= 2 /\ s[2] = "LF"
                                 THEN SubSeq(s, 3, Len(s)) ELSE Tail(s))
    ELSE <<s[1]>> \o LfOnly(Tail(s))

\* Trailing blank lines removed, and nothing else.
RECURSIVE NoTrailingBlankLines(_)
NoTrailingBlankLines(s) ==
    IF s # <<>> /\ s[Len(s)] = "LF"
    THEN NoTrailingBlankLines(SubSeq(s, 1, Len(s) - 1))
    ELSE s

ExactEqual(a, b) ==
    NoTrailingBlankLines(LfOnly(a)) = NoTrailingBlankLines(LfOnly(b))

\* The quiz is graded by the exact rule, spelt as a plain string or as
\* { type: "exact", value }.
ExactRule(Q) ==
    Q.desired.k = "str" \/ (Q.desired.k = "obj" /\ Q.desired.type = "exact")

\* onRunComplete has been called for the quiz.
Graded == quiz.present /\ quiz.completed > 0

\* C23: under the exact rule, grading passes if and only if no error was
\* reported and the output equals the expected text once line endings are
\* converted to LF and trailing blank lines are removed, nothing else.
C23_ExactGrading ==
    (Graded /\ ExactRule(quiz)) =>
        (quiz.isCorrect <=>
            (quiz.error = "" /\ ExactEqual(quiz.output, quiz.desired.s)))

\* C24: under the error rule, grading passes if and only if the run
\* reported an error, whatever its message and whatever the output.
C24_ErrorRule ==
    (Graded /\ quiz.desired.k = "obj" /\ quiz.desired.type = "error") =>
        (quiz.isCorrect <=> quiz.error # "")

\* C25: for a quiz whose rule is skippable, Continue / Finish is unavailable
\* until a run has completed and available after any completed run, correct
\* or not.
C25_SkippableNeedsOneRun ==
    (quiz.present /\ quiz.desired.skippable /\ ~quiz.passed) =>
        (ContinueAvailable(quiz) <=> quiz.completed > 0)

\* C26: for a quiz without desiredOutput, Continue / Finish is available
\* without any run, and a completed run neither evaluates the comparison nor
\* marks the quiz solved, correct or incorrect.
C26_NoDesiredNeverGrades ==
    (quiz.present /\ quiz.desired.k = "null") =>
        /\ ~quiz.passed => ContinueAvailable(quiz)
        /\ ~quiz.compared /\ ~quiz.solved /\ ~quiz.isCorrect
        /\ RightPanel(quiz) = "none"

\* A quiz without desiredOutput completed a run with empty output and no
\* error, and Finish was clicked afterwards.
C26_Witness ==
    /\ quiz.present /\ quiz.desired.k = "null" /\ quiz.isLast
    /\ quiz.completed > 0 /\ quiz.output = <<>> /\ quiz.error = ""
    /\ quiz.attempted /\ quiz.passed

\* ----------------------------------------------------- the code that runs
\* Text c with one leading copy of a removed when c begins with it, and with
\* one trailing copy of a removed when c ends with it.
Tails(c) == {SubSeq(c, i, Len(c)) : i \in 1..(Len(c) + 1)}
Heads(c) == {SubSeq(c, 1, i) : i \in 0..Len(c)}
WithoutLeading(c, a) ==
    IF \E t \in Tails(c) : c = a \o t
    THEN CHOOSE t \in Tails(c) : c = a \o t ELSE c
WithoutTrailing(c, a) ==
    IF \E h \in Heads(c) : c = h \o a
    THEN CHOOSE h \in Heads(c) : c = h \o a ELSE c

\* The code a run of editor text c is to execute.
Enforced(Q, c) ==
    RunAffix(Q.prefix) \o
    WithoutTrailing(WithoutLeading(c, RunAffix(Q.prefix)), RunAffix(Q.suffix)) \o
    RunAffix(Q.suffix)

MaxLineNo == 2
MaxErrLines == 2
Line(k, n) == [k |-> k, n |-> n]
ErrLines ==
    {Line(k, 0) : k \in {"blank", "frame", "trace", "caret", "known",
                         "phrase", "plain"}}
    \cup {Line("file", n) : n \in 1..MaxLineNo}
ErrTexts == UNION {[1..n -> ErrLines] : n \in 1..MaxErrLines}

\* The JavaScript values sanitizePythonError may be given: null, undefined,
\* a string, a number, an object that converts to "[object Object]", and an
\* object whose conversion to a string throws (no usable toString, such as
\* Object.create(null)).
JsValue(k, t) == [k |-> k, t |-> t]
JsStr(t) == JsValue("str", t)
JsValues ==
    {JsValue(k, <<>>) : k \in {"null", "undefined", "num", "obj", "opaque"}}
    \cup {JsStr(t) : t \in ErrTexts}

\* String(v ?? '')
ToStringOr(v) ==
    CASE v.k \in {"null", "undefined"} ->
             [threw |-> FALSE, t |-> <<Line("blank", 0)>>]
      [] v.k = "str"    -> [threw |-> FALSE, t |-> v.t]
      [] v.k = "opaque" -> [threw |-> TRUE, t |-> <<>>]
      [] OTHER          -> [threw |-> FALSE, t |-> <<Line("plain", 0)>>]

MaxOf(S) == CHOOSE x \in S : \A y \in S : y <= x

\* What the function returns: the kind of text, the line number the text
\* holds itself (own) and the one appended as " (line n)" (n).
Cleaned(k, own, n) == [threw |-> FALSE, k |-> k, own |-> own, n |-> n, t |-> <<>>]
RawText(t) == [threw |-> FALSE, k |-> "raw", own |-> 0, n |-> 0, t |-> t]
Thrown == [threw |-> TRUE, k |-> "", own |-> 0, n |-> 0, t |-> <<>>]

\* The body of the try block, for the text m.
SanitizeText(m) ==
    LET numbered == {i \in DOMAIN m : m[i].n # 0}
        lineNo == IF numbered = {} THEN 0 ELSE m[MaxOf(numbered)].n
        kept == {i \in DOMAIN m :
                    m[i].k \notin {"blank", "frame", "trace", "file", "caret"}}
        finalLine == IF kept # {} THEN m[MaxOf(kept)]
                     ELSE IF m[Len(m)].k = "blank" THEN Line("Error", 0)
                     ELSE m[Len(m)]
        friendly == finalLine.k = "known" \/ \E i \in DOMAIN m : m[i].k = "phrase"
    IN IF friendly THEN Cleaned("friendly", 0, lineNo)
       ELSE Cleaned(finalLine.k, finalLine.n,
                    IF lineNo # 0 /\ finalLine.n = 0 THEN lineNo ELSE 0)

\* The catch block: return String(msg ?? ''), converting the argument anew.
SanitizeCatch(msg) ==
    IF ToStringOr(msg).threw THEN Thrown ELSE RawText(ToStringOr(msg).t)

\* sanitizePythonError: the try block throws only where it converts its
\* argument; the rest works on strings.
SanitizePythonError(msg) ==
    IF ToStringOr(msg).threw THEN SanitizeCatch(msg)
    ELSE SanitizeText(ToStringOr(msg).t)

\* A direct call of the function.
SanitizeCall(v) ==
    /\ san' = [called |-> TRUE, arg |-> v, res |-> SanitizePythonError(v)]
    /\ UNCHANGED <<runners, wk, runs, warmups, now, ui, quiz, py, app, auth>>

\* What runPythonAsync rejects with: a PythonError whose message is the
\* traceback text (or is empty).
PyErrors == {[message |-> t] : t \in ErrTexts \cup {<<>>}}

\* e?.message || String(e)
RawOf(e) == IF e.message # <<>> THEN e.message ELSE <<Line("plain", 0)>>

\* Python: runPythonAsync rejects with e; the catch block of the run handler
\* sanitizes the message and posts the error.  If the sanitizer threw, the
\* handler ends there and posts nothing.
PyExecThrow(w, i, e) ==
    /\ Running(w)
    /\ wk[w].kind = "py"
    /\ wk[w].tasks[i].pc = "exec"
    /\ LET k == [wk[w] EXCEPT !.tasks = RemoveAt(@, i)]
           message == SanitizePythonError(JsStr(RawOf(e)))
       IN /\ wk' = [wk EXCEPT ![w] =
                       IF message.threw THEN k
                       ELSE Post(k, ErrorMsg(wk[w].tasks[i].rid, "exec"))]
          /\ san' = [called |-> TRUE, arg |-> JsStr(RawOf(e)), res |-> message]
    /\ UNCHANGED <<runners, runs, warmups, now, ui, quiz, py, app, auth>>

\* One Python Runner whose runs fail with any error text, and the sanitizer
\* called on any value.
InitSan ==
    /\ LET S == CreateRunnerF(EmptySt, "py") IN
         /\ runners = S.runners /\ wk = S.wk
         /\ runs = S.runs /\ warmups = S.warmups
    /\ now = 0
    /\ ui = UiInit
    /\ quiz = NoQuiz /\ san = NoCall /\ NoPage

NextSan ==
    \/ \E rn \in DOMAIN runners : Run(rn)
    \/ \E w \in DOMAIN wk, ok \in BOOLEAN : WorkerReceive(w, ok)
    \/ \E w \in DOMAIN wk, ok \in BOOLEAN : PyLoadSettle(w, ok)
    \/ \E w \in DOMAIN wk : \E i \in TaskIdx(w) : PyExecEnd(w, i, TRUE)
    \/ \E w \in DOMAIN wk : \E i \in TaskIdx(w), e \in PyErrors : PyExecThrow(w, i, e)
    \/ \E w \in DOMAIN wk : Deliver(w)
    \/ \E v \in JsValues : SanitizeCall(v)

SpecSan == InitSan /\ [][NextSan]_vars

\* The handler of run r in worker w has run to its end.
Handled(w, r) ==
    /\ runs[r].w = w /\ wk[w].alive
    /\ \A i \in DOMAIN wk[w].inbox : wk[w].inbox[i].rid # r
    /\ \A i \in DOMAIN wk[w].tasks : wk[w].tasks[i].rid # r

TerminalsFor(w, r) ==
    {i \in DOMAIN wk[w].log : wk[w].log[i].rid = r /\ IsTerminal(wk[w].log[i])}

\* C28: sanitizePythonError never throws, whatever it is given; when its
\* processing fails it returns the argument converted to a string; and every
\* handled Python run has posted exactly one terminal message.
C28_SanitizerNeverThrows ==
    /\ san.called =>
          /\ ~san.res.threw
          /\ ToStringOr(san.arg).threw => san.res.k = "raw"
    /\ \A w \in PyWorkers : \A r \in DOMAIN runs :
          Handled(w, r) => Cardinality(TerminalsFor(w, r)) = 1

\* ------------------------------------------------- the message protocol
\* The messages worker w has posted for run r, in order.
LogFor(w, r) == LET Mine(m) == m.rid = r IN SelectSeq(wk[w].log, Mine)

\* C29: for each run message a worker posts stdout / stderr messages and
\* then exactly one terminal message, `done` or `error`: never two, never
\* an output after it, and one once the handler has run to its end.
C29_OneTerminalPerRun ==
    \A w \in DOMAIN wk : \A r \in DOMAIN runs :
        /\ Terminals(LogFor(w, r)) \subseteq {Len(LogFor(w, r))}
        /\ Handled(w, r) => Terminals(LogFor(w, r)) = {Len(LogFor(w, r))}

\* A worker posted stdout, stderr and done, in this order, for one run.
C29_Witness ==
    \E w \in DOMAIN wk : \E r \in DOMAIN runs :
        /\ Handled(w, r)
        /\ Len(LogFor(w, r)) = 3
        /\ LogFor(w, r)[1].type = "stdout" /\ LogFor(w, r)[2].type = "stderr"
        /\ LogFor(w, r)[3] = DoneMsg(r)

\* --------------------------------------------------------- warming again
WarmupIds == 1..MaxCtxWarmups

\* warmup() call u is pending on a worker that has posted `ready`.
WarmupOnReady(u) ==
    /\ u \in DOMAIN warmups
    /\ warmups[u].state = "pending" /\ warmups[u].w # 0
    /\ wk[warmups[u].w].nReady >= 1

\* warmup() call u has resolved, or its worker no longer runs.
WarmupOver(u) ==
    /\ u \in DOMAIN warmups
    /\ \/ warmups[u].state = "resolved"
       \/ warmups[u].w # 0 /\ ~Running(warmups[u].w)

\* C30: a warmup() on a Runner whose worker has already posted `ready`
\* returns a promise that eventually resolves (unless user code that never
\* returns keeps the worker busy).
C30_WarmupAgainResolves ==
    \A u \in WarmupIds :
        [](WarmupOnReady(u) => <>WarmupOver(u))

\* -------------------------------------------- a toolchain that loads late
ToolWorkers == {w \in DOMAIN wk : wk[w].kind \in {"c", "cs"}}

\* Worker w posts the "toolchain is not available" error in this step.
PostsUnavailable(w) ==
    \E i \in DOMAIN NewPosts(w) :
        NewPosts(w)[i] = ErrorMsg(NewPosts(w)[i].rid, "unavailable")

\* C34: in the C and C# workers a run whose handler finds the backend
\* adapter loaded calls compileAndRun, also when an earlier load attempt
\* failed and a later one succeeded; the toolchain-unavailable error is
\* posted only while no backend is loaded.
C34_LoadedBackendRuns ==
    [][\A w \in ToolWorkers : PostsUnavailable(w) => ~wk'[w].backend]_vars

\* ------------------------------------------- the Python interpreter's state
\* run() calls made on the Python Runner, one after the other.
MaxPyRuns == 3

\* Learner programs:  "set" is `x = 1`,  "setRaise" is `x = 1` followed by
\* a statement that raises,  "print" is `print(x)`.
Programs == {"set", "setRaise", "print"}

\* pyodide.runPythonAsync(code): the worker keeps one interpreter and passes
\* no globals of its own, so the code runs in the interpreter's global
\* namespace g.  out: a line was printed; ok: no exception was raised.
RunPython(g, code) ==
    CASE code = "set"      -> [globals |-> g \cup {"x"}, out |-> FALSE, ok |-> TRUE]
      [] code = "setRaise" -> [globals |-> g \cup {"x"}, out |-> FALSE, ok |-> FALSE]
      [] OTHER             -> [globals |-> g, out |-> "x" \in g, ok |-> "x" \in g]

\* The lesson page runs a program once the previous run has settled.
PyRun(rn, code) ==
    /\ HostTurn
    /\ Len(runs) < MaxPyRuns
    /\ InFlight(rn) = {}
    /\ Commit(RunF(St, rn, now))
    /\ py' = Append(py, code)
    /\ UNCHANGED <<now, ui, quiz, san, app, auth>>

\* Python: the run handler from runPythonAsync to its end.
PyExec(w, i) ==
    /\ Running(w)
    /\ wk[w].kind = "py"
    /\ wk[w].tasks[i].pc = "exec"
    /\ LET t   == wk[w].tasks[i]
           res == RunPython(wk[w].globals, py[t.rid])
           k0  == [wk[w] EXCEPT !.tasks = RemoveAt(@, i),
                                !.globals = res.globals]
           k1  == IF res.out THEN Post(k0, Msg("stdout", t.rid, 1, "")) ELSE k0
       IN wk' = [wk EXCEPT ![w] =
                    Post(k1, IF res.ok THEN DoneMsg(t.rid)
                             ELSE ErrorMsg(t.rid, "exec"))]
    /\ UNCHANGED <<runners, runs, warmups, now>> /\ NoUi

InitPy ==
    /\ LET S == CreateRunnerF(EmptySt, "py") IN
         /\ runners = S.runners /\ wk = S.wk
         /\ runs = S.runs /\ warmups = S.warmups
    /\ now = 0
    /\ ui = UiInit
    /\ quiz = NoQuiz /\ san = NoCall /\ NoPage

NextPy ==
    \/ \E rn \in DOMAIN runners, code \in Programs : PyRun(rn, code)
    \/ \E w \in DOMAIN wk, ok \in BOOLEAN : WorkerReceive(w, ok)
    \/ \E w \in DOMAIN wk, ok \in BOOLEAN : PyLoadSettle(w, ok)
    \/ \E w \in DOMAIN wk : \E i \in TaskIdx(w) : PyExec(w, i)
    \/ \E w \in DOMAIN wk : Deliver(w)

SpecPy == InitPy /\ [][NextPy]_vars

\* What a run reported: its updates without `ready` and without the run's
\* identity.
Reported(r) ==
    LET us == SelectSeq(runs[r].updates, NotReady) IN
    [i \in DOMAIN us |-> <<us[i].type, us[i].msg>>]

\* C35: on the Python backend the updates of a run depend only on its
\* source: two runs of the same source on one Runner report the same
\* updates, whatever ran in between.
C35_RunsAreIndependent ==
    \A r1 \in DOMAIN runs : \A r2 \in DOMAIN runs :
        (/\ Resolved(r1) /\ Resolved(r2)
         /\ runs[r1].runner = runs[r2].runner
         /\ py[r1] = py[r2])
           => Reported(r1) = Reported(r2)

\* ------------------------------------------------------- App: the lessons
\* manifest.json: the lesson ids, in order.  A lesson route carries any id;
\* "z" is an id the manifest does not have.
Manifest == <<"a", "b">>
Ids(m) == {m[i] : i \in DOMAIN m}
RouteIds == Ids(Manifest) \cup {"z"}
\* The route: "" is the home page, an id stands for lesson/<id>.
Routes == {"", "signin"} \cup RouteIds

\* Elements of one lesson, lesson loads and finishLesson calls of one
\* behaviour.
MaxElems == 2
MaxLoads == 2
MaxFinishes == 2

\* A lesson element, by what the gating reads: a text, a multiple-choice
\* quiz, and a code quiz whose desiredOutput is a non-empty string ("quiz"),
\* a rule object ("rule"), or absent or empty ("free").
Kinds == {"text", "mcq", "quiz", "rule", "free"}
Contents == UNION {[1..n -> Kinds] : n \in 0..MaxElems}

\* cq.desiredOutput is truthy
Gated(kind) == kind \in {"quiz", "rule"}

NoLesson == [set |-> FALSE, id |-> "", content |-> <<>>]
NoSave == [active |-> FALSE, id |-> "", before |-> {}]

\* The App component after its mount effects: useState initial values, the
\* build's hasSupabase, the signed-in user, and the completed set loaded
\* from the progress backend (stored).
\*   currentId : "" stands for null
\*   lesson    : the loaded lesson; id is the lesson whose file it came from
\*   fetches   : loadLesson calls awaiting their response, with the
\*               `cancelled` flag of each
\*   saving    : the finishLesson call awaiting setLessonCompleted; before is
\*               the completed set when it was called (history)
\*   loads, finishes : loadLesson / finishLesson calls so far (history)
NewApp(supabase, user, done) ==
    [mounted |-> TRUE, supabase |-> supabase, user |-> user,
     route |-> "", currentId |-> "", manifest |-> <<>>,
     lesson |-> NoLesson, lessonLoading |-> FALSE, lessonError |-> FALSE,
     fetches |-> {},
     visibleCount |-> 0, mcqAnswered |-> {}, codeSolved |-> {},
     finishSaving |-> FALSE, completed |-> done, stored |-> done,
     saving |-> NoSave, loads |-> 0, finishes |-> 0]

CanDoLessons(A) == ~A.supabase \/ A.user

\* The loadLesson effect, run after currentId or manifest changed: the
\* cleanup of the previous run, then the effect body.
LoadLessonEffect(A) ==
    LET A1 == [A EXCEPT !.fetches = {[f EXCEPT !.cancelled = TRUE] : f \in @}]
    IN IF A1.currentId = "" \/ A1.currentId \notin Ids(A1.manifest) THEN A1
       ELSE [A1 EXCEPT !.lessonLoading = TRUE, !.lessonError = FALSE,
                       !.fetches = @ \cup {[id |-> A1.currentId,
                                            cancelled |-> FALSE]},
                       !.loads = @ + 1]

\* navigate(r), with the effect that copies the route's lesson id to
\* currentId and the effects that depend on currentId.
NavigateTo(A, r) ==
    LET id == IF r \in RouteIds THEN r ELSE ""
        A1 == [A EXCEPT !.route = r, !.currentId = id]
    IN IF id = A.currentId THEN A1 ELSE LoadLessonEffect(A1)

\* The effect that resets the sequential view when `lesson` changed.
ResetEffect(A) ==
    [A EXCEPT !.visibleCount = IF Len(A.lesson.content) > 0 THEN 1 ELSE 0,
              !.mcqAnswered = {}, !.codeSolved = {}]

\* loadLesson after its fetch settled.
LoadLessonDone(A, f, ok, content) ==
    LET A1 == [A EXCEPT !.fetches = @ \ {f}] IN
    IF f.cancelled THEN A1
    ELSE IF ok
         THEN ResetEffect([A1 EXCEPT !.lesson = [set |-> TRUE, id |-> f.id,
                                                 content |-> content],
                                     !.lessonLoading = FALSE])
         ELSE [A1 EXCEPT !.lessonError = TRUE, !.lessonLoading = FALSE]

\* The lesson article is rendered.
Displayed(A) ==
    /\ A.mounted /\ A.route \in RouteIds
    /\ ~A.lessonLoading /\ ~A.lessonError /\ A.lesson.set

Len0(A) == Len(A.lesson.content)

\* Mutant of Allow: a multiple-choice quiz does not gate Continue.
Allow_McqOpen(A) ==
    LET last == A.visibleCount IN
    IF last \notin DOMAIN A.lesson.content THEN TRUE
    ELSE IF Gated(A.lesson.content[last]) THEN last \in A.codeSolved
    ELSE TRUE

\* allow: the gate of the last visible element (elements are counted from
\* 1 here, from 0 in the source).
Allow(A) ==
    LET last == A.visibleCount IN
    IF last \notin DOMAIN A.lesson.content THEN TRUE
    ELSE IF A.lesson.content[last] = "mcq" THEN last \in A.mcqAnswered
    ELSE IF Gated(A.lesson.content[last]) THEN last \in A.codeSolved
    ELSE TRUE

\* Mutant of CanFinish: Finish is not gated at all.
CanFinish_Open(A) == TRUE

\* canFinish: the gate of the final element.
CanFinish(A) ==
    IF Len0(A) \in DOMAIN A.lesson.content /\ Gated(A.lesson.content[Len0(A)])
    THEN Len0(A) \in A.codeSolved
    ELSE TRUE

ContinueOffered(A) == Displayed(A) /\ A.visibleCount < Len0(A) /\ Allow(A)
FinishOffered(A) == Displayed(A) /\ A.visibleCount >= Len0(A) /\ CanFinish(A)

\* finishLesson up to `await setLessonCompleted(currentId, true)`.
FinishLesson(A) ==
    IF A.currentId = "" THEN A
    ELSE IF ~CanDoLessons(A)
         THEN NavigateTo(A, IF A.supabase THEN "signin" ELSE "")
    ELSE [A EXCEPT !.finishSaving = TRUE,
                   !.completed = @ \cup {A.currentId},
                   !.saving = [active |-> TRUE, id |-> A.currentId,
                               before |-> A.completed],
                   !.finishes = @ + 1]

\* setLessonCompleted: with Supabase and a signed-in user the upsert is
\* stored or throws; otherwise localStorage is written, and a failure of
\* that is swallowed.
SaveOutcomes(A) ==
    IF A.supabase /\ A.user THEN {"stored", "throw"} ELSE {"stored", "swallowed"}

\* finishLesson after `await setLessonCompleted(currentId, true)`.
FinishLessonDone(A, o) ==
    LET A1 == [A EXCEPT !.saving.active = FALSE, !.finishSaving = FALSE,
                        !.stored = IF o = "stored" THEN @ \cup {A.saving.id}
                                   ELSE @]
    IN IF o = "throw"
       THEN [A1 EXCEPT !.completed = @ \ {A.saving.id}]
       ELSE NavigateTo(A1, "")

NoLessons == UNCHANGED <<runners, wk, runs, warmups, now, ui, quiz, san, py, auth>>

\* The learner opens a route (a click on the home page, or the URL).
Navigate(r) ==
    /\ app.mounted /\ r # app.route
    /\ NavigateTo(app, r).loads <= MaxLoads
    /\ app' = NavigateTo(app, r)
    /\ NoLessons

\* The manifest arrives; the loadLesson effect runs again.
ManifestLoaded ==
    /\ app.mounted /\ app.manifest = <<>>
    /\ app' = LoadLessonEffect([app EXCEPT !.manifest = Manifest])
    /\ NoLessons

\* The response for a lesson file arrives, or its fetch fails.
LessonFetched(f, ok, content) ==
    /\ app.mounted /\ f \in app.fetches
    /\ app' = LoadLessonDone(app, f, ok, content)
    /\ NoLessons

\* A click on Continue.
AppContinue ==
    /\ ContinueOffered(app)
    /\ app' = [app EXCEPT !.visibleCount = @ + 1]
    /\ NoLessons

\* The learner picks an option of the visible multiple-choice quiz i.
AppAnswer(i) ==
    /\ Displayed(app) /\ i \in 1..app.visibleCount
    /\ i \in DOMAIN app.lesson.content /\ app.lesson.content[i] = "mcq"
    /\ i \notin app.mcqAnswered
    /\ app' = [app EXCEPT !.mcqAnswered = @ \cup {i}]
    /\ NoLessons

\* A run of the visible code quiz i printed its desiredOutput: onSolved.
\* Only a string is ever matched.
AppSolve(i) ==
    /\ Displayed(app) /\ i \in 1..app.visibleCount
    /\ i \in DOMAIN app.lesson.content /\ app.lesson.content[i] = "quiz"
    /\ i \notin app.codeSolved
    /\ app' = [app EXCEPT !.codeSolved = @ \cup {i}]
    /\ NoLessons

\* A click on Finish.
AppFinish ==
    /\ FinishOffered(app) /\ ~app.finishSaving
    /\ app.finishes < MaxFinishes
    /\ app' = FinishLesson(app)
    /\ NoLessons

\* setLessonCompleted settles.
SaveSettled(o) ==
    /\ app.mounted /\ app.saving.active
    /\ o \in SaveOutcomes(app)
    /\ app' = FinishLessonDone(app, o)
    /\ NoLessons

\* The completed sets the progress backend can hold at mount.
Prefixes == {{Manifest[i] : i \in 1..n} : n \in 0..Len(Manifest)}

InitApp ==
    /\ runners = <<>> /\ wk = <<>> /\ runs = <<>> /\ warmups = <<>>
    /\ now = 0 /\ ui = UiInit /\ quiz = NoQuiz /\ san = NoCall
    /\ py = <<>> /\ auth = NoAuth
    /\ \E supabase \in BOOLEAN, user \in BOOLEAN, done \in Prefixes :
          app = NewApp(supabase, user, done)

NextApp ==
    \/ \E r \in Routes : Navigate(r)
    \/ ManifestLoaded
    \/ \E f \in app.fetches, ok \in BOOLEAN, c \in Contents : LessonFetched(f, ok, c)
    \/ AppContinue
    \/ \E i \in 1..MaxElems : AppAnswer(i)
    \/ \E i \in 1..MaxElems : AppSolve(i)
    \/ AppFinish
    \/ \E o \in {"stored", "swallowed", "throw"} : SaveSettled(o)

SpecApp == InitApp /\ [][NextApp]_vars

\* ----------------------------------------------------- locked lessons
\* nextAllowedIndex: the position of the first lesson not yet completed
\* (positions are counted from 1 here).
NextAllowedIndex(A) ==
    LET open == {i \in DOMAIN A.manifest : A.manifest[i] \notin A.completed}
    IN IF open = {} THEN Len(A.manifest) + 1
       ELSE CHOOSE i \in open : \A j \in open : i <= j

\* currentLocked, for the lesson id: it comes after the first uncompleted
\* lesson of the manifest.
Locked(A, id) ==
    \E i \in DOMAIN A.manifest :
        A.manifest[i] = id /\ i > NextAllowedIndex(A)

\* C31: a locked lesson cannot be completed: while it is locked, no step
\* adds it to the completed set or persists it, also when the lesson was
\* opened directly by its route.
C31_LockedNotCompleted ==
    [][\A id \in Ids(Manifest) :
          Locked(app, id) =>
             /\ id \in app'.completed => id \in app.completed
             /\ id \in app'.stored => id \in app.stored
      ]_vars

\* ------------------------------------------------- gates within a lesson
\* The gate of element i of the loaded lesson is satisfied.
GateMet(A, i) ==
    /\ A.lesson.content[i] = "mcq" => i \in A.mcqAnswered
    /\ Gated(A.lesson.content[i]) => i \in A.codeSolved

C36_FailedFinishRestores ==
    [][SaveSettled("throw") =>
          /\ app'.completed = app.saving.before
          /\ ~app'.finishSaving
          /\ app'.route = app.route
      ]_vars

\* --------------------------------------------- the lesson that is shown
\* C37: the lesson content displayed on a lesson route is the content loaded
\* for the route's lesson id (a late response for an earlier lesson never
\* replaces it, an id absent from the manifest never shows another lesson's
\* content), and Finish completes the lesson whose content is displayed.
C37_ShownIsRouted ==
    /\ [](Displayed(app) => app.lesson.id = app.route)
    /\ [][(AppFinish /\ app'.saving.active)
             => app'.saving.id = app.lesson.id]_vars

\* --------------------------------------------------------- onAuthChange
\* Invocations of the callback in one behaviour.
MaxAuthCalls == 4
\* What the callback is given: null ("none") or a user.
AuthUsers == {"none", "u"}

\* onAuthChange(callback): with Supabase configured getCurrentUser is called
\* and the listener is registered; without, a no-op function is returned.
\*   pc     : where the initial getCurrentUser is: awaiting getSession
\*            ("session"), awaiting getUser or its timeout ("user"), "done"
\*   active : the onAuthStateChange subscription is registered
\*   unsubscribed : the returned function has been called (history)
\*   calls  : the arguments of the callback's invocations, in order (history)
NewAuth(hasSupabase) ==
    [subscribed |-> TRUE, pc |-> IF hasSupabase THEN "session" ELSE "done",
     active |-> hasSupabase, unsubscribed |-> FALSE, calls |-> <<>>]

\* callback(u)
AuthCallback(G, u) == [G EXCEPT !.calls = Append(@, u)]

\* getCurrentUser after `await supabase.auth.getSession()`: a session user
\* is returned at once, which runs the `then` of onAuthChange; otherwise
\* getUser is raced against the timeout.
GetSessionDone(G, u) ==
    IF u # "none" THEN AuthCallback([G EXCEPT !.pc = "done"], u)
    ELSE [G EXCEPT !.pc = "user"]

\* getCurrentUser after the race of getUser and the timeout: the user, or
\* null on an error or the timeout; then the `then` of onAuthChange.
GetUserDone(G, u) == AuthCallback([G EXCEPT !.pc = "done"], u)

\* The listener given to supabase.auth.onAuthStateChange.
OnAuthStateChange(G, u) == AuthCallback(G, u)

\* The function onAuthChange returns.
UnsubscribeF(G) == [G EXCEPT !.active = FALSE, !.unsubscribed = TRUE]

NoAuthChange == UNCHANGED <<runners, wk, runs, warmups, now, ui, quiz, san, py, app>>

\* App's effect: onAuthChange(callback); u is what getSession yields.
SessionSettled(u) ==
    /\ auth.subscribed /\ auth.pc = "session"
    /\ Len(auth.calls) < MaxAuthCalls
    /\ auth' = GetSessionDone(auth, u)
    /\ NoAuthChange

UserSettled(u) ==
    /\ auth.subscribed /\ auth.pc = "user"
    /\ Len(auth.calls) < MaxAuthCalls
    /\ auth' = GetUserDone(auth, u)
    /\ NoAuthChange

\* Supabase reports a sign-in or sign-out to the registered listener.
AuthEvent(u) ==
    /\ auth.subscribed /\ auth.active
    /\ Len(auth.calls) < MaxAuthCalls
    /\ auth' = OnAuthStateChange(auth, u)
    /\ NoAuthChange

\* The effect's cleanup calls the returned function.
Unsubscribe ==
    /\ auth.subscribed /\ ~auth.unsubscribed
    /\ auth' = UnsubscribeF(auth)
    /\ NoAuthChange

InitAuth ==
    /\ runners = <<>> /\ wk = <<>> /\ runs = <<>> /\ warmups = <<>>
    /\ now = 0 /\ ui = UiInit /\ quiz = NoQuiz /\ san = NoCall
    /\ py = <<>> /\ app = NoApp
    /\ \E hasSupabase \in BOOLEAN : auth = NewAuth(hasSupabase)

NextAuth ==
    \/ \E u \in AuthUsers : SessionSettled(u)
    \/ \E u \in AuthUsers : UserSettled(u)
    \/ \E u \in AuthUsers : AuthEvent(u)
    \/ Unsubscribe

SpecAuth == InitAuth /\ [][NextAuth]_vars

\* C38: once the function returned by onAuthChange has been called, the
\* callback is never invoked again, not even by the initial getCurrentUser
\* lookup that was in flight at that moment.
C38_NoCallAfterUnsubscribe ==
    [][auth.subscribed /\ auth.unsubscribed => auth'.calls = auth.calls]_vars

====
